---- MODULE Spec2Model ----
(***************************************************************************)
(* A model of cc_miner: the websocket supervisor (socket/server.py) and    *)
(* the Turtle controller (core/turtle/turtle.py).                          *)
(*                                                                         *)
(* One connection task is modelled as a call stack of frames.  A frame is  *)
(* one activation of a coroutine of the source; its pc names the place in  *)
(* the coroutine's body where it continues.  Every action is one basic     *)
(* block of one coroutine.  The agent on the other end of the socket is    *)
(* the environment: it is either the always-success stub of                *)
(* tests/core/conftest.py (honest, with a fuel tank that a movement        *)
(* empties by one) or an arbitrary agent that may answer anything, answer  *)
(* garbage or close the connection.                                        *)
(***************************************************************************)
EXTENDS Integers, Sequences, FiniteSets, TLC

(* ------------------------------ bounds --------------------------------- *)

\* The strategy keeps the believed location inside the cube -MaxCoord..MaxCoord.
MaxCoord == 1

\* The largest fuel level an agent starts with or reports.
MaxFuel == 3

\* The longest run of consecutive turns the turn-law ghost remembers.
MaxTrail == 4

\* The tank of a stub agent that is to see a whole strategy through.
AmpleFuel == 2000

(* ------------------------------ types.py ------------------------------- *)

NORTH == 0

EAST == 1

SOUTH == 2

WEST == 3

Bearings == {NORTH, EAST, SOUTH, WEST}

\* len(Bearing)
BearingCount == Cardinality(Bearings)

FORWARD == "FORWARD"

BACK == "BACK"

UP == "UP"

DOWN == "DOWN"

Directions == {FORWARD, BACK, UP, DOWN}

Loc(px, py, pz) == [x |-> px, y |-> py, z |-> pz]

Origin == Loc(0, 0, 0)

Abs(v) == IF v < 0 THEN -v ELSE v

Coords == (-MaxCoord)..MaxCoord

InBox(l) == l.x \in Coords /\ l.y \in Coords /\ l.z \in Coords

(* --------------------------- snippets, frames --------------------------- *)

\* A snippet is the sequence of its space-separated words.
Snippet(call) == <<"return", call>>

\* "return" in command
HasReturn(command) == \E i \in 1..Len(command) : command[i] = "return"

GetFuelSnippet == Snippet("turtle.getFuelLevel()")

MoveSnippet(d) ==
    CASE d = FORWARD -> Snippet("turtle.forward()")
      [] d = BACK -> Snippet("turtle.back()")
      [] d = UP -> Snippet("turtle.up()")
      [] d = DOWN -> Snippet("turtle.down()")

DigSnippet(d) ==
    CASE d = FORWARD -> Snippet("turtle.dig()")
      [] d = DOWN -> Snippet("turtle.digDown()")
      [] d = UP -> Snippet("turtle.digUp()")

MovementSnippets == {MoveSnippet(d) : d \in Directions}

\* str(n) for n >= 0, as the sequence of its digits
RECURSIVE Decimal(_)
Decimal(n) ==
    LET digit == <<"0", "1", "2", "3", "4", "5", "6", "7", "8", "9">>[(n % 10) + 1]
    IN  IF n < 10 THEN <<digit>> ELSE Append(Decimal(n \div 10), digit)

\* f"return turtle.getItemDetail({slot})"
ItemDetailSnippet(slot) == <<"return", "turtle.getItemDetail(">> \o Decimal(slot) \o <<")">>

\* f"return turtle.select({slot})"
SelectSnippet(slot) == <<"return", "turtle.select(">> \o Decimal(slot) \o <<")">>

RefuelSnippet == Snippet("turtle.refuel()")

\* range(1, 17)
SlotCount == 16

\* self._slot_range
SlotRange == 1..SlotCount

ItemDetailSnippets == {ItemDetailSnippet(slot) : slot \in SlotRange}

\* A search string or an item name, as the sequence of its characters.
Coal == <<"c", "o", "a", "l">>

Charcoal == <<"c", "h", "a", "r">> \o Coal

Torch == <<"t", "o", "r", "c", "h">>

Dirt == <<"d", "i", "r", "t">>

\* search in details.name
Contains(search, name) ==
    \E at \in 1..(Len(name) - Len(search) + 1) :
        SubSeq(name, at, at + Len(search) - 1) = search

\* The data of a reply to getItemDetail: null, or the name and count of a stack.
ItemData(null, name, count) == [null |-> null, name |-> name, count |-> count]

NullData == ItemData(TRUE, <<>>, 0)

\* An agent whose inventory is not followed, and the empty inventory.
NoInventory == [slots |-> <<>>, selected |-> 1]

EmptySlots == [slot \in SlotRange |-> NullData]

\* What the agent may report of a slot.
SlotReports == {NullData} \cup {ItemData(FALSE, name, 1) : name \in {Coal, Charcoal, Torch, Dirt}}

InspectSnippet(d) ==
    CASE d = FORWARD -> Snippet("turtle.inspect()")
      [] d = DOWN -> Snippet("turtle.inspectDown()")
      [] d = UP -> Snippet("turtle.inspectUp()")

InspectSnippets == {InspectSnippet(d) : d \in {FORWARD, DOWN, UP}}

Gravel == <<"g", "r", "a", "v", "e", "l">>

Sand == <<"s", "a", "n", "d">>

Stone == <<"s", "t", "o", "n", "e">>

\* A Python dict with string keys is a function on its keys; {} is the empty one.
EmptyDict == <<>>

\* dict.get(key, default)
DictGet(dict, key, default) == IF key \in DOMAIN dict THEN dict[key] ELSE default

\* What the agent may report of a block: its metadata, or nothing.
BlockReports ==
    {EmptyDict} \cup {[name |-> n] : n \in {Gravel, Sand, Stone}}

\* Variant: a stamp that reports a failed command as successful.
StampHopeful(command, outcome) ==
    Append(command, IF outcome = "(FAILURE)" THEN "(SUCCESS)" ELSE outcome)

\* f"{command} (PENDING)" and its two siblings
Stamp(command, outcome) == Append(command, outcome)

\* A frame on the wire.  dir is "a2c" (agent to controller) or "c2a".  What
\* the "data" key holds is in data if it is a number (or the metadata of a
\* block) and in item if it is the details of a slot.
WireFrame(dir, type, body, status, data) ==
    [dir |-> dir, type |-> type, body |-> body, status |-> status, data |-> data,
     item |-> NullData]

NoFrame == WireFrame("none", "none", <<>>, FALSE, 0)

DataMessage(message) == WireFrame("c2a", "data", <<message>>, FALSE, 0)

ErrorMessage(message) == WireFrame("c2a", "error", <<message>>, FALSE, 0)

CommandMessage(command) == WireFrame("c2a", "command", command, FALSE, 0)

CommandResponse(status, data) == WireFrame("a2c", "response", <<>>, status, data)

\* The response to a getItemDetail.
ItemResponse(status, item) == [CommandResponse(status, 0) EXCEPT !.item = item]

\* What a coroutine returned.
Ret(kind, status, data) ==
    [kind |-> kind, status |-> status, data |-> data, item |-> NullData]

NoneRet == Ret("none", TRUE, 0)

IntRet(v) == Ret("int", TRUE, v)

\* An exception in flight.
Exc(type, msg) == [type |-> type, msg |-> msg]

NoExc == Exc("none", "")

ConnectionClosed == Exc("ConnectionClosed", "")

(* ---------------------------- the call stack ---------------------------- *)

\* One activation of a coroutine: its position, its arguments (arg, cmd,
\* tgt, cost, search) and its local variables (diff, n, mc; the loop
\* counters i, j, k of a strategy).
Frame(fn, pc) ==
    [fn |-> fn, pc |-> pc, arg |-> "-", cmd |-> <<>>, tgt |-> Origin,
     cost |-> FALSE, diff |-> Origin, n |-> 0, mc |-> 0,
     search |-> <<>>, i |-> 0, j |-> 0, k |-> 0]

VARIABLES
    stack,            \* the connection task's call stack, outermost frame first
    exc,              \* the exception being propagated, or NoExc
    ret,              \* the value the last finished coroutine returned
    loc,              \* Turtle._position.location
    bearing,          \* Turtle._position.bearing
    home,             \* Turtle._home_location
    home_is_position, \* _home_location is the object position.location
    check_fuel,       \* Turtle._check_fuel
    latest_fuel,      \* Turtle._latest_fuel
    steps_from_home,  \* Turtle._steps_from_home
    latest_command,   \* Turtle._latest_command
    do_place_torches, \* StripTurtle.do_place_torches
    current_light_level, \* StripTurtle.current_light_level
    clients,          \* SocketServer.clients
    first,            \* the first frame of the connection, until it is dispatched
    connOpen,         \* the websocket is open
    lastFrame,        \* the last frame that travelled on the connection
    tick,             \* flips whenever a frame travels
    outstanding,      \* command frames sent whose reply was not received yet
    honest,           \* the agent is the always-success stub
    fuel,             \* the stub agent's fuel tank
    inventory,        \* the agent's slots and selected slot, if it keeps any
    trail,            \* the current run of consecutive turns (turn laws)
    parked            \* the other connection's task while this one runs: <<>> or <<its context>>

vars == <<stack, exc, ret, loc, bearing, home, home_is_position, check_fuel,
          latest_fuel, steps_from_home, latest_command, do_place_torches,
          current_light_level, clients, first, connOpen,
          lastFrame, tick, outstanding, honest, fuel, inventory, trail, parked>>

\* The attributes of the turtle that only a StripTurtle's start writes.
attrVars == <<home_is_position, do_place_torches, current_light_level>>

turtleVars == <<loc, bearing, home, check_fuel, latest_fuel, steps_from_home,
                latest_command, attrVars>>

wireVars == <<lastFrame, tick, outstanding>>

Top == stack[Len(stack)]

Pop == SubSeq(stack, 1, Len(stack) - 1)

SetTop(f) == [stack EXCEPT ![Len(stack)] = f]

\* The top frame continues at pc once callee has returned.
Call(pc, callee) == Append(SetTop([Top EXCEPT !.pc = pc]), callee)

\* s without the frames on top of it that have nothing left to do but return.
RECURSIVE Finished(_)
Finished(s) ==
    IF s # <<>> /\ s[Len(s)].pc = "done"
    THEN Finished(SubSeq(s, 1, Len(s) - 1))
    ELSE s

\* The top frame returns v: it and the callers that only waited for it to
\* return None themselves leave the stack.
Return(v) ==
    /\ stack' = Finished(Pop)
    /\ ret' = IF Finished(Pop) = Pop THEN v ELSE Ret("none", TRUE, 0)

Running == exc = NoExc /\ stack # <<>>

At(fn, pc) == Running /\ Top.fn = fn /\ Top.pc = pc

Travels(frame) == lastFrame' = frame /\ tick' = 1 - tick

(* ------------------------------ Init ------------------------------------ *)

\* The first frame an agent may send.  json: what json.loads makes of it;
\* type: the value of its "type" key ("none": no such key); msg, status, id:
\* whether it carries a string "message", a "status" and an integer "id".
FirstFrame(json, type, msg, status, id) ==
    [json |-> json, type |-> type, msg |-> msg, status |-> status, id |-> id]

NoFirst == FirstFrame("none", "none", FALSE, FALSE, FALSE)

FirstFrames ==
    {FirstFrame("invalid", "none", FALSE, FALSE, FALSE),
     FirstFrame("number", "none", FALSE, FALSE, FALSE)}
    \cup {FirstFrame("object", t, m, s, i) :
            t \in {"none", "register", "data", "banana"},
            m \in BOOLEAN, s \in BOOLEAN, i \in BOOLEAN}

\* The uid every register frame of the model carries.
Uid == 7

\* Variant: an active set that tells turtles apart by their uid.
TurtleByUid(conn) == [conn |-> 0, uid |-> Uid]

\* The record of the connection in the active set (a set of objects, by identity).
TurtleOf(conn) == [conn |-> conn, uid |-> Uid]

\* The connection whose task is running: websockets.serve starts one handler
\* task per connection, and the event loop runs one task at a time.
Self == IF parked = <<>> THEN 1 ELSE 3 - parked[1].conn

\* The turn-law ghost: whether turns are recorded, and for each of the last
\* MaxTrail consecutive turns its kind and the pose it started from.
Trail(on, seen) == [on |-> on, seen |-> seen]

\* The state when the connection has been accepted and handler() starts:
\* the class attributes of Turtle and what Turtle.__init__ sets.
InitTurtle ==
    /\ stack = <<Frame("handler", "recv")>>
    /\ exc = NoExc
    /\ ret = NoneRet
    /\ loc = Origin
    /\ bearing = NORTH
    /\ home = Origin
    /\ home_is_position = FALSE
    /\ check_fuel = TRUE
    /\ latest_fuel = 0
    /\ steps_from_home = 0
    /\ latest_command = <<>>
    /\ do_place_torches = TRUE
    /\ current_light_level = 0
    /\ clients = {}
    /\ first = NoFirst
    /\ connOpen = TRUE
    /\ lastFrame = NoFrame
    /\ tick = 0
    /\ outstanding = 0

\* ... and the agent it talks to.
InitBase ==
    /\ InitTurtle
    /\ parked = <<>>
    /\ honest \in BOOLEAN
    /\ fuel \in (IF honest THEN 0..MaxFuel ELSE {0})
    /\ inventory = NoInventory

Init == InitBase /\ trail = Trail(FALSE, <<>>)

(* ----------------------------- server.py -------------------------------- *)

\* BaseMessage subclasses declare type as a str with a default, so any type
\* string validates; a schema fails only on a missing required field.
ValidatesData(f) == f.msg

ValidatesError(f) == f.msg

ValidatesResponse(f) == f.status

ValidatesRegister(f) == f.id

\* for potential_type in [DataMessage, ErrorMessage, CommandResponse, RegisterMessage]
ParsedAs(f) ==
    IF ValidatesData(f) THEN "DataMessage"
    ELSE IF ValidatesError(f) THEN "ErrorMessage"
    ELSE IF ValidatesResponse(f) THEN "CommandResponse"
    ELSE IF ValidatesRegister(f) THEN "RegisterMessage"
    ELSE "none"

\* The message of the error frame the handler answers f with ("" : none).
Rejection(f) ==
    IF f.json = "invalid" THEN "Invalid JSON message"
    ELSE IF f.type = "none" THEN "'type' key not in message"
    ELSE IF ParsedAs(f) = "none" THEN "Could not parse"
    ELSE IF ParsedAs(f) # "RegisterMessage" THEN "Unexpected event type"
    ELSE ""

\* message = await websocket.recv()
HandlerRecv ==
    /\ At("handler", "recv")
    /\ IF connOpen
       THEN \E f \in FirstFrames :
              /\ first' = f
              /\ Travels(WireFrame("a2c", f.type, <<>>, FALSE, 0))
              /\ stack' = SetTop([Top EXCEPT !.pc = "dispatch"])
              /\ exc' = exc
       ELSE /\ exc' = ConnectionClosed
            /\ UNCHANGED <<first, lastFrame, tick, stack>>
    /\ UNCHANGED <<ret, turtleVars, clients, connOpen, outstanding, honest, fuel, inventory, trail, parked>>

\* "type" not in event, for an event that is a number
HandlerTypeError ==
    /\ At("handler", "dispatch")
    /\ first.json = "number"
    /\ exc' = Exc("TypeError", "argument of type 'int' is not iterable")
    /\ first' = NoFirst
    /\ UNCHANGED <<stack, ret, turtleVars, clients, connOpen, wireVars, honest, fuel, inventory, trail, parked>>

\* raise await self.error(websocket, ...)
HandlerReject ==
    /\ At("handler", "dispatch")
    /\ first.json # "number"
    /\ Rejection(first) # ""
    /\ first' = NoFirst
    /\ IF connOpen
       THEN /\ Travels(ErrorMessage(Rejection(first)))
            /\ exc' = Exc("Exception", Rejection(first))
       ELSE /\ exc' = ConnectionClosed
            /\ UNCHANGED <<lastFrame, tick>>
    /\ UNCHANGED <<stack, ret, turtleVars, clients, connOpen, outstanding, honest, fuel, inventory, trail, parked>>

\* await self.register(websocket, event.id)
HandlerRegister ==
    /\ At("handler", "dispatch")
    /\ first.json = "object"
    /\ Rejection(first) = ""
    /\ stack' = Call("done", Frame("register", "entry"))
    /\ UNCHANGED <<exc, ret, turtleVars, clients, first, connOpen, wireVars, honest, fuel, inventory, trail, parked>>

\* turtle = self.mining_type(_id, websocket); self.clients.add(turtle);
\* await self.send(websocket, "Registered")
RegisterEntry ==
    /\ At("register", "entry")
    /\ clients' = clients \cup {TurtleOf(Self)}
    /\ first' = NoFirst
    /\ IF connOpen
       THEN /\ Travels(DataMessage("Registered"))
            /\ stack' = SetTop([Top EXCEPT !.pc = "start"])
            /\ exc' = exc
       ELSE /\ exc' = ConnectionClosed
            /\ UNCHANGED <<lastFrame, tick, stack>>
    /\ UNCHANGED <<ret, turtleVars, connOpen, outstanding, honest, fuel, inventory, trail, parked>>

\* try: await turtle.start()
RegisterStart ==
    /\ At("register", "start")
    /\ stack' = Call("finally", Frame("start", "loop"))
    /\ UNCHANGED <<exc, ret, turtleVars, clients, first, connOpen, wireVars, honest, fuel, inventory, trail, parked>>

\* finally: self.clients.remove(turtle); try: await self.send(websocket,
\* "Deregistered") except Exception: log.  The exception in flight, if any,
\* goes on once the block is done.
RegisterFinally ==
    /\ stack # <<>>
    /\ Top.fn = "register"
    /\ Top.pc = "finally"
    /\ clients' = clients \ {TurtleOf(Self)}
    /\ IF connOpen
       THEN Travels(DataMessage("Deregistered"))
       ELSE UNCHANGED <<lastFrame, tick>>
    /\ stack' = IF exc = NoExc THEN Finished(Pop) ELSE Pop
    /\ UNCHANGED <<exc, ret, turtleVars, first, connOpen, outstanding, honest, fuel, inventory, trail, parked>>

\* A frame whose try block is active catches (or, with finally, intercepts)
\* the exception.
Handles(f, e) ==
    \/ f.fn = "register" /\ f.pc = "finally"
    \/ f.fn = "refuel" /\ f.pc = "select" /\ e.type = "InventoryException"
    \/ f.fn = "inventory_dump" /\ f.pc = "select" /\ e.type = "InventoryException"
    \/ f.fn = "inventory_dump" /\ f.pc = "drop" /\ e.type = "InteractionException"
    \/ f.fn = "start" /\ f.pc = "refuel" /\ e.type \in {"InventoryException", "ValueError"}
    \/ f.fn = "start" /\ f.pc = "dump" /\ e.type = "InventoryException"
    \/ f.fn = "start" /\ f.pc \in {"torch", "end_torch"} /\ e.type = "InventoryException"

RECURSIVE Unwind(_, _)
Unwind(s, e) ==
    IF s = <<>> \/ Handles(s[Len(s)], e) THEN s
    ELSE Unwind(SubSeq(s, 1, Len(s) - 1), e)

\* An exception leaves the frames that do not handle it.
Propagate ==
    /\ exc # NoExc
    /\ stack # <<>>
    /\ ~Handles(Top, exc)
    /\ stack' = Unwind(stack, exc)
    /\ UNCHANGED <<exc, ret, turtleVars, clients, first, connOpen, wireVars, honest, fuel, inventory, trail, parked>>

(* ------------------------- turtle.py: _command --------------------------- *)

\* Variant: a _command that listens for a reply without having sent.
CommandFrameNoSend(command) == [Frame("_command", "recv") EXCEPT !.cmd = command]

CommandFrame(command) == [Frame("_command", "entry") EXCEPT !.cmd = command]

\* An item named after coal that is no fuel.
CoalOre == Coal \o <<"_", "o", "r", "e">>

\* The agent keeps an inventory of SlotCount slots.
KeepsInventory == inventory.slots # <<>>

\* turtle.refuel() burns the stack in the selected slot if it is fuel.
Burnable(item) == ~item.null /\ item.name \in {Coal, Charcoal}

\* The slot a getItemDetail or select snippet names.
SlotOf(command) ==
    CHOOSE slot \in SlotRange : command \in {ItemDetailSnippet(slot), SelectSnippet(slot)}

\* The reply of an agent that keeps an inventory: it answers every command,
\* reports its slots and its tank, and refuses to burn what is no fuel.
StockReply(command) ==
    IF command \in ItemDetailSnippets THEN ItemResponse(TRUE, inventory.slots[SlotOf(command)])
    ELSE IF command = RefuelSnippet
    THEN CommandResponse(Burnable(inventory.slots[inventory.selected]), 0)
    ELSE CommandResponse(TRUE, IF command = GetFuelSnippet THEN fuel ELSE 0)

\* The inventory after the agent has executed command.
Stock(command) ==
    IF ~KeepsInventory THEN inventory
    ELSE IF \E slot \in SlotRange : command = SelectSnippet(slot)
    THEN [inventory EXCEPT !.selected = SlotOf(command)]
    ELSE IF command = RefuelSnippet /\ Burnable(inventory.slots[inventory.selected])
    THEN [inventory EXCEPT !.slots[inventory.selected] = NullData]
    ELSE inventory

\* The replies an agent may give to command: the stub always succeeds and
\* reports its tank; any other agent answers what it likes.
Replies(command) ==
    IF KeepsInventory THEN {StockReply(command)}
    ELSE IF command \in ItemDetailSnippets
    THEN {ItemResponse(st, d) : st \in (IF honest THEN {TRUE} ELSE BOOLEAN), d \in SlotReports}
    ELSE IF command \in InspectSnippets
    THEN {CommandResponse(st, d) : st \in (IF honest THEN {TRUE} ELSE BOOLEAN), d \in BlockReports}
    ELSE IF honest
    THEN {CommandResponse(TRUE, IF command = GetFuelSnippet THEN fuel ELSE 0)}
    ELSE {CommandResponse(st, d) :
            st \in BOOLEAN,
            d \in (IF command = GetFuelSnippet THEN 0..MaxFuel ELSE {0})}

\* The stub's tank after it has executed command.
Burn(command) ==
    IF honest /\ command \in MovementSnippets /\ fuel > 0 THEN fuel - 1
    ELSE IF /\ KeepsInventory
            /\ command = RefuelSnippet
            /\ Burnable(inventory.slots[inventory.selected])
    THEN fuel + inventory.slots[inventory.selected].count
    ELSE fuel

\* Variant: a _command without the check for "return".
CommandRefusesNothing(command) == FALSE

\* if "return" not in command: raise CommandException
CommandRefuses(command) == ~HasReturn(command)

\* Variant: a _command that returns once it has sent, without awaiting recv.
CommandSendNoAwait ==
    /\ At("_command", "entry")
    /\ IF ~HasReturn(Top.cmd)
       THEN /\ exc' = Exc("CommandException", "Command must return a value.")
            /\ UNCHANGED <<stack, ret, latest_command, wireVars>>
       ELSE /\ latest_command' = Stamp(Top.cmd, "(PENDING)")
            /\ IF connOpen
               THEN /\ Travels(CommandMessage(Top.cmd))
                    /\ outstanding' = outstanding + 1
                    /\ Return(Ret("response", TRUE, 0))
                    /\ exc' = exc
               ELSE /\ exc' = ConnectionClosed
                    /\ UNCHANGED <<stack, ret, wireVars>>
    /\ UNCHANGED <<loc, bearing, home, attrVars, check_fuel, latest_fuel, steps_from_home,
                   clients, first, connOpen, honest, fuel, inventory, trail, parked>>

\* _command up to and including await self.socket.send(...)
CommandSend ==
    /\ At("_command", "entry")
    /\ IF CommandRefuses(Top.cmd)
       THEN /\ exc' = Exc("CommandException", "Command must return a value.")
            /\ UNCHANGED <<stack, latest_command, wireVars>>
       ELSE /\ latest_command' = Stamp(Top.cmd, "(PENDING)")
            /\ IF connOpen
               THEN /\ Travels(CommandMessage(Top.cmd))
                    /\ outstanding' = outstanding + 1
                    /\ stack' = SetTop([Top EXCEPT !.pc = "recv"])
                    /\ exc' = exc
               ELSE /\ exc' = ConnectionClosed
                    /\ UNCHANGED <<stack, wireVars>>
    /\ UNCHANGED <<ret, loc, bearing, home, attrVars, check_fuel, latest_fuel, steps_from_home,
                   clients, first, connOpen, honest, fuel, inventory, trail, parked>>

\* res_raw = await self.socket.recv() and the rest of _command
CommandRecv ==
    /\ At("_command", "recv")
    /\ IF connOpen
       THEN \E r \in Replies(Top.cmd) :
              /\ Travels(r)
              /\ outstanding' = outstanding - 1
              /\ latest_command' =
                   Stamp(Top.cmd, IF r.status = TRUE THEN "(SUCCESS)" ELSE "(FAILURE)")
              /\ Return([Ret("response", r.status, r.data) EXCEPT !.item = r.item])
              /\ fuel' = Burn(Top.cmd)
              /\ inventory' = Stock(Top.cmd)
              /\ exc' = exc
       ELSE /\ exc' = ConnectionClosed
            /\ UNCHANGED <<stack, ret, latest_command, wireVars, fuel, inventory>>
    /\ UNCHANGED <<loc, bearing, home, attrVars, check_fuel, latest_fuel, steps_from_home,
                   clients, first, connOpen, honest, trail, parked>>

\* CommandResponse.parse_raw(res_raw) of a frame that is no response
CommandRecvGarbage ==
    /\ At("_command", "recv")
    /\ connOpen
    /\ ~honest
    /\ Travels(WireFrame("a2c", "garbage", <<>>, FALSE, 0))
    /\ outstanding' = outstanding - 1
    /\ exc' = Exc("ValidationError", "")
    /\ UNCHANGED <<stack, ret, turtleVars, clients, first, connOpen, honest, fuel, inventory, trail, parked>>

\* The task is cancelled while it waits for the reply.
Cancel ==
    /\ At("_command", "recv")
    /\ ~honest
    /\ exc' = Exc("CancelledError", "")
    /\ UNCHANGED <<stack, ret, turtleVars, clients, first, connOpen, wireVars, honest, fuel, inventory, trail, parked>>

\* The places where the task sends or receives next.
AtSocket ==
    \/ Running /\ Top.fn \in {"_command", "handler"}
    \/ Running /\ Top.fn = "register" /\ Top.pc = "entry"
    \/ stack # <<>> /\ Top.fn = "register" /\ Top.pc = "finally"

\* The agent closes the connection (the task notices at its next send or recv).
AgentDisconnect ==
    /\ AtSocket
    /\ ~honest
    /\ connOpen
    /\ connOpen' = FALSE
    /\ UNCHANGED <<stack, exc, ret, turtleVars, clients, first, wireVars, honest, fuel, inventory, trail, parked>>

(* --------------------- turtle.py: move and the guard ---------------------- *)

\* The ghost after a turn of kind side has started at the current pose.
Recorded(side) ==
    IF ~trail.on THEN trail
    ELSE LET all == Append(trail.seen, [op |-> side, loc |-> loc, bearing |-> bearing])
         IN  Trail(TRUE, IF Len(all) > MaxTrail THEN Tail(all) ELSE all)

\* A move ends the run of turns.
Forgotten == Trail(trail.on, <<>>)

\* position_change of move
PositionChange(d) ==
    CASE d = FORWARD -> -1
      [] d = BACK -> 1
      [] d = UP -> 1
      [] d = DOWN -> -1

\* horizontal_movement of move
HorizontalMovement(d) == d \in {FORWARD, BACK}

\* Variant: a move with the signs of EAST and WEST exchanged.
AfterMoveMirrored(l, b, d) ==
    IF HorizontalMovement(d)
    THEN CASE b = NORTH -> [l EXCEPT !.z = @ + PositionChange(d)]
           [] b = SOUTH -> [l EXCEPT !.z = @ - PositionChange(d)]
           [] b = WEST -> [l EXCEPT !.x = @ - PositionChange(d)]
           [] b = EAST -> [l EXCEPT !.x = @ + PositionChange(d)]
    ELSE [l EXCEPT !.y = @ + PositionChange(d)]

\* The location after the position update of move(d) at location l, bearing b.
AfterMove(l, b, d) ==
    IF HorizontalMovement(d)
    THEN CASE b = NORTH -> [l EXCEPT !.z = @ + PositionChange(d)]
           [] b = SOUTH -> [l EXCEPT !.z = @ - PositionChange(d)]
           [] b = WEST -> [l EXCEPT !.x = @ + PositionChange(d)]
           [] b = EAST -> [l EXCEPT !.x = @ - PositionChange(d)]
    ELSE [l EXCEPT !.y = @ + PositionChange(d)]

\* for _ in range(n): movement_cost += 1
RECURSIVE LoopCount(_)
LoopCount(n) == IF n <= 0 THEN 0 ELSE 1 + LoopCount(n - 1)

\* x_diff, y_diff, z_diff of move_to_location
Diff(target, l) == Loc(target.x - l.x, target.y - l.y, target.z - l.z)

\* Variant: a cost calculation that leaves the vertical leg out.
PlannerCostFlat(target, l) ==
    LoopCount(Abs(Diff(target, l).x)) + LoopCount(Abs(Diff(target, l).z))

\* What move_to_location(target, cost_calculation=True) returns at location l.
PlannerCost(target, l) ==
    LoopCount(Abs(Diff(target, l).y)) + LoopCount(Abs(Diff(target, l).x))
        + LoopCount(Abs(Diff(target, l).z))

PlannerFrame(target, costOnly) ==
    [Frame("move_to_location", "entry") EXCEPT !.tgt = target, !.cost = costOnly]

MoveFrame(d) == [Frame("move", "guard") EXCEPT !.arg = d]

\* get_fuel on its way into _command
GetFuelFrames == <<Frame("get_fuel", "check"), CommandFrame(GetFuelSnippet)>>

\* Variant: a move that goes on without calling check_fuel.
GuardFramesNone == <<>>

\* check_fuel on its way into get_fuel
GuardFrames == <<Frame("check_fuel", "decide")>> \o GetFuelFrames

\* if self._check_fuel: await self.check_fuel()
MoveGuard ==
    /\ At("move", "guard")
    /\ check_fuel
    /\ stack' = SetTop([Top EXCEPT !.pc = "step"]) \o GuardFrames
    /\ UNCHANGED <<exc, ret, turtleVars, clients, first, connOpen, wireVars, honest, fuel, inventory, trail, parked>>

\* The position update of move and the call of _command.  The update is made
\* in place (self.position.location.z += ...), so a home that is the same
\* object moves with it.
MoveStep ==
    /\ \/ At("move", "guard") /\ ~check_fuel
       \/ At("move", "step")
    /\ loc' = AfterMove(loc, bearing, Top.arg)
    /\ home' = IF home_is_position THEN loc' ELSE home
    /\ stack' = Call("done", CommandFrame(MoveSnippet(Top.arg)))
    /\ trail' = Forgotten
    /\ UNCHANGED <<exc, ret, bearing, attrVars, check_fuel, latest_fuel, steps_from_home,
                   latest_command, clients, first, connOpen, wireVars, honest, fuel, inventory, parked>>

\* Variant: a get_fuel that returns the data of a failed reply as well.
GetFuelCheckLenient ==
    /\ At("get_fuel", "check")
    /\ Return(IntRet(ret.data))
    /\ UNCHANGED <<exc, turtleVars, clients, first, connOpen, wireVars, honest, fuel, inventory, trail, parked>>

\* if res.status: return res.data else: raise CommandException
GetFuelCheck ==
    /\ At("get_fuel", "check")
    /\ IF ret.status
       THEN /\ Return(IntRet(ret.data))
            /\ exc' = exc
       ELSE /\ exc' = Exc("CommandException", "Failed to get fuel level.")
            /\ UNCHANGED <<ret, stack>>
    /\ UNCHANGED <<turtleVars, clients, first, connOpen, wireVars, honest, fuel, inventory, trail, parked>>

\* Variant: a guard that lets the turtle go on when fuel equals the cost.
GuardTripsStrict(steps, level) == steps > level

\* if steps_to_get_back >= fuel
GuardTrips(steps, level) == steps >= level

\* check_fuel from the caching of the reading to the decision.
CheckFuelDecide ==
    /\ At("check_fuel", "decide")
    /\ latest_fuel' = ret.data
    /\ steps_from_home' = PlannerCost(home, loc)
    /\ IF GuardTrips(PlannerCost(home, loc), ret.data)
       THEN /\ check_fuel' = FALSE
            /\ stack' = Call("halt", PlannerFrame(home, FALSE))
       ELSE /\ check_fuel' = check_fuel
            /\ stack' = Finished(Pop)
    /\ ret' = NoneRet
    /\ UNCHANGED <<exc, loc, bearing, home, attrVars, latest_command, clients, first, connOpen,
                   wireVars, honest, fuel, inventory, trail, parked>>

HaltReturned == Exc("HaltException", "Returned before ran out of fuel.")

\* raise HaltException("Returned before ran out of fuel.")
CheckFuelHalt ==
    /\ At("check_fuel", "halt")
    /\ exc' = HaltReturned
    /\ UNCHANGED <<stack, ret, turtleVars, clients, first, connOpen, wireVars, honest, fuel, inventory, trail, parked>>

(* ------------------------ turtle.py: turn, dig --------------------------- *)

\* Variant: a turn_left that turns the way turn_right does.
LeftOfMirrored(b) == (b + 1) % BearingCount

\* Bearing((bearing.value - 1) % len(Bearing))
LeftOf(b) == (b - 1) % BearingCount

\* Variant: a turn_right that leaves the bearing as it is.
RightOfStill(b) == b

\* Bearing((bearing.value + 1) % len(Bearing))
RightOf(b) == (b + 1) % BearingCount

TurnFrame(side) == [Frame("turn", "entry") EXCEPT !.arg = side]

TurnLeft ==
    /\ At("turn", "entry")
    /\ Top.arg = "left"
    /\ bearing' = LeftOf(bearing)
    /\ trail' = Recorded("left")
    /\ stack' = Call("done", CommandFrame(Snippet("turtle.turnLeft()")))
    /\ UNCHANGED <<exc, ret, loc, home, attrVars, check_fuel, latest_fuel, steps_from_home,
                   latest_command, clients, first, connOpen, wireVars, honest, fuel, inventory, parked>>

TurnRight ==
    /\ At("turn", "entry")
    /\ Top.arg = "right"
    /\ bearing' = RightOf(bearing)
    /\ trail' = Recorded("right")
    /\ stack' = Call("done", CommandFrame(Snippet("turtle.turnRight()")))
    /\ UNCHANGED <<exc, ret, loc, home, attrVars, check_fuel, latest_fuel, steps_from_home,
                   latest_command, clients, first, connOpen, wireVars, honest, fuel, inventory, parked>>

\* The directions dig has a command for.
DigSupports(d) == d \in {FORWARD, DOWN, UP}

\* dig(d) on its way into _command
DigFrames(d) == <<[Frame("dig", "done") EXCEPT !.arg = d], CommandFrame(DigSnippet(d))>>

\* What dig raises for a direction it does not support.
DigRefusal == Exc("CommandException", "Bad direction.")

DigMoveFrame(d) == [Frame("dig_move", "dig") EXCEPT !.arg = d]

\* await self.dig(direction)
DigMoveDig ==
    /\ At("dig_move", "dig")
    /\ IF DigSupports(Top.arg)
       THEN /\ stack' = SetTop([Top EXCEPT !.pc = "move"]) \o DigFrames(Top.arg)
            /\ exc' = exc
       ELSE /\ exc' = DigRefusal
            /\ stack' = stack
    /\ UNCHANGED <<ret, turtleVars, clients, first, connOpen, wireVars, honest, fuel, inventory, trail, parked>>

\* await self.move(direction)
DigMoveMove ==
    /\ At("dig_move", "move")
    /\ stack' = Call("done", MoveFrame(Top.arg))
    /\ UNCHANGED <<exc, ret, turtleVars, clients, first, connOpen, wireVars, honest, fuel, inventory, trail, parked>>

(* --------------------- turtle.py: move_to_location ------------------------ *)

\* Variant: an x leg that always turns to EAST.
XBearingEast(xDiff) == EAST

\* The bearing the x leg turns to.
XBearing(xDiff) == IF xDiff > 0 THEN EAST ELSE WEST

\* The bearing the z leg turns to.
ZBearing(zDiff) == IF zDiff > 0 THEN SOUTH ELSE NORTH

\* Variant: a y leg that goes the wrong way.
YDirectionFlipped(yDiff) == IF yDiff > 0 THEN DOWN ELSE UP

\* The direction of the y leg.
YDirection(yDiff) == IF yDiff > 0 THEN UP ELSE DOWN

\* The planner's frame moved past the loops that have nothing left to do,
\* facing b: its pc is then a loop with a call to make, or "return".
RECURSIVE Settle(_, _)
Settle(f, b) ==
    CASE f.pc = "y" ->
           IF f.n < Abs(f.diff.y) THEN f
           ELSE Settle([f EXCEPT !.pc = "xturn", !.n = 0], b)
      [] f.pc = "xturn" ->
           IF b # XBearing(f.diff.x) THEN f
           ELSE Settle([f EXCEPT !.pc = "x", !.n = 0], b)
      [] f.pc = "x" ->
           IF f.n < Abs(f.diff.x) THEN f
           ELSE Settle([f EXCEPT !.pc = "zturn", !.n = 0], b)
      [] f.pc = "zturn" ->
           IF b # ZBearing(f.diff.z) THEN f
           ELSE Settle([f EXCEPT !.pc = "z", !.n = 0], b)
      [] f.pc = "z" ->
           IF f.n < Abs(f.diff.z) THEN f
           ELSE Settle([f EXCEPT !.pc = "nturn", !.n = 0], b)
      [] f.pc = "nturn" ->
           IF b # NORTH THEN f
           ELSE [f EXCEPT !.pc = "return"]

\* The call the planner makes at the loop f.pc.
PlannerCallee(f) ==
    CASE f.pc = "y" -> DigMoveFrame(YDirection(f.diff.y))
      [] f.pc \in {"x", "z"} -> DigMoveFrame(FORWARD)
      [] f.pc \in {"xturn", "zturn", "nturn"} -> TurnFrame("right")

\* The planner's frame once the call of loop f.pc has been made.
PlannerCounted(f) ==
    IF f.pc \in {"y", "x", "z"} THEN [f EXCEPT !.n = @ + 1, !.mc = @ + 1] ELSE f

\* move_to_location up to its first loop; with cost_calculation the whole of it.
PlannerEntry ==
    /\ At("move_to_location", "entry")
    /\ IF Top.cost
       THEN Return(IntRet(PlannerCost(Top.tgt, loc)))
       ELSE /\ ret' = ret
            /\ stack' = SetTop([Top EXCEPT !.pc = "y", !.diff = Diff(Top.tgt, loc)])
    /\ UNCHANGED <<exc, turtleVars, clients, first, connOpen, wireVars, honest, fuel, inventory, trail, parked>>

\* move_to_location from one call (dig_move, turn_right) to the next, or to
\* return movement_cost.
PlannerStep ==
    /\ Running
    /\ Top.fn = "move_to_location"
    /\ Top.pc \in {"y", "xturn", "x", "zturn", "z", "nturn"}
    /\ LET f == Settle(Top, bearing)
       IN  IF f.pc = "return"
           THEN Return(IntRet(f.mc))
           ELSE /\ ret' = ret
                /\ stack' = Append(SetTop(PlannerCounted(f)), PlannerCallee(f))
    /\ UNCHANGED <<exc, turtleVars, clients, first, connOpen, wireVars, honest, fuel, inventory, trail, parked>>

(* ---------------- turtle.py: inventory_select, refuel --------------------- *)

InventoryFrame(search) == [Frame("inventory_select", "entry") EXCEPT !.search = search]

\* raise InventoryException("Could not find item.")
InventoryMissing == Exc("InventoryException", "Could not find item.")

\* inventory_select up to its first getItemDetail.
InventoryEntry ==
    /\ At("inventory_select", "entry")
    /\ stack' = Append(SetTop([Top EXCEPT !.pc = "reply", !.n = 1]),
                       CommandFrame(ItemDetailSnippet(1)))
    /\ UNCHANGED <<exc, ret, turtleVars, clients, first, connOpen, wireVars, honest, fuel, inventory, trail, parked>>

\* Variant: an inventory_select that wants the name to be the search string.
SlotMatchesExact(search, data) == ~data.null /\ data.name = search

\* The reply to getItemDetail(slot) names a stack that matches search.
SlotMatches(search, data) == ~data.null /\ Contains(search, data.name)

\* inventory_select from the reply for one slot to the next command, or to
\* raise InventoryException.
InventoryReply ==
    /\ At("inventory_select", "reply")
    /\ IF SlotMatches(Top.search, ret.item)
       THEN /\ stack' = Call("done", CommandFrame(SelectSnippet(Top.n)))
            /\ exc' = exc
       ELSE IF Top.n < SlotCount
       THEN /\ stack' = Append(SetTop([Top EXCEPT !.n = @ + 1]),
                               CommandFrame(ItemDetailSnippet(Top.n + 1)))
            /\ exc' = exc
       ELSE /\ exc' = InventoryMissing
            /\ stack' = stack
    /\ ret' = NoneRet
    /\ UNCHANGED <<turtleVars, clients, first, connOpen, wireVars, honest, fuel, inventory, trail, parked>>

FUEL_LIMIT == 20000

RefuelFrame(target) == [Frame("refuel", "entry") EXCEPT !.n = target]

\* if 0 < target_fuel_level < FUEL_LIMIT: raise ValueError
RefuelRejects(target) == 0 < target /\ target < FUEL_LIMIT

BadTarget == Exc("ValueError", "Target fuel level must be between 0 and 20000.")

\* Variant: a threshold that is met already when the level equals the target.
EnoughAtLeast(level, target) == level >= target \/ level >= FUEL_LIMIT

\* fuel > target_fuel_level or fuel >= FUEL_LIMIT
Enough(level, target) == level > target \/ level >= FUEL_LIMIT

\* refuel up to its first inventory_select (self._fuel_blocks is ["coal"]).
RefuelEntry ==
    /\ At("refuel", "entry")
    /\ IF RefuelRejects(Top.n)
       THEN /\ exc' = BadTarget
            /\ stack' = stack
       ELSE /\ exc' = exc
            /\ stack' = Call("select", InventoryFrame(Coal))
    /\ UNCHANGED <<ret, turtleVars, clients, first, connOpen, wireVars, honest, fuel, inventory, trail, parked>>

\* await self._command("return turtle.refuel()")
RefuelBurn ==
    /\ At("refuel", "select")
    /\ stack' = Call("refuelled", CommandFrame(RefuelSnippet))
    /\ UNCHANGED <<exc, ret, turtleVars, clients, first, connOpen, wireVars, honest, fuel, inventory, trail, parked>>

\* fuel = await self.get_fuel(), in the loop
RefuelRead ==
    /\ At("refuel", "refuelled")
    /\ stack' = SetTop([Top EXCEPT !.pc = "read"]) \o GetFuelFrames
    /\ UNCHANGED <<exc, ret, turtleVars, clients, first, connOpen, wireVars, honest, fuel, inventory, trail, parked>>

\* The test of the level read in the loop: return, or select again.
RefuelDecide ==
    /\ At("refuel", "read")
    /\ IF Enough(ret.data, Top.n)
       THEN Return(NoneRet)
       ELSE /\ stack' = Call("select", InventoryFrame(Coal))
            /\ ret' = NoneRet
    /\ UNCHANGED <<exc, turtleVars, clients, first, connOpen, wireVars, honest, fuel, inventory, trail, parked>>

\* except InventoryException: break, then the second get_fuel
RefuelCaught ==
    /\ stack # <<>>
    /\ Top.fn = "refuel"
    /\ Top.pc = "select"
    /\ exc.type = "InventoryException"
    /\ exc' = NoExc
    /\ stack' = SetTop([Top EXCEPT !.pc = "final"]) \o GetFuelFrames
    /\ UNCHANGED <<ret, turtleVars, clients, first, connOpen, wireVars, honest, fuel, inventory, trail, parked>>

\* The test of the level read last: return, or raise InventoryException.
RefuelFinal ==
    /\ At("refuel", "final")
    /\ IF Enough(ret.data, Top.n)
       THEN /\ Return(NoneRet)
            /\ exc' = exc
       ELSE /\ exc' = Exc("InventoryException", "Not enough fuel.")
            /\ UNCHANGED <<stack, ret>>
    /\ UNCHANGED <<turtleVars, clients, first, connOpen, wireVars, honest, fuel, inventory, trail, parked>>

(* -------------------- Turtle.start: the strategy -------------------------- *)

\* The targets the strategy sends the planner to.
Targets == {Origin, Loc(MaxCoord, MaxCoord, -MaxCoord), Loc(-MaxCoord, 0, MaxCoord)}

\* The snippets the strategy hands to _command itself.
RawSnippets == {GetFuelSnippet, <<"turtle.getFuelLevel()">>}

\* The strategy is between two calls; what the last call returned is dropped.
AtStrategy == At("start", "loop")

StrategyMove ==
    /\ AtStrategy
    /\ \E d \in Directions :
         /\ InBox(AfterMove(loc, bearing, d))
         /\ stack' = Append(stack, MoveFrame(d))
    /\ ret' = NoneRet
    /\ UNCHANGED <<exc, turtleVars, clients, first, connOpen, wireVars, honest, fuel, inventory, trail, parked>>

StrategyDigMove ==
    /\ AtStrategy
    /\ \E d \in Directions :
         /\ InBox(AfterMove(loc, bearing, d))
         /\ stack' = Append(stack, DigMoveFrame(d))
    /\ ret' = NoneRet
    /\ UNCHANGED <<exc, turtleVars, clients, first, connOpen, wireVars, honest, fuel, inventory, trail, parked>>

StrategyTurn ==
    /\ AtStrategy
    /\ \E side \in {"left", "right"} : stack' = Append(stack, TurnFrame(side))
    /\ ret' = NoneRet
    /\ UNCHANGED <<exc, turtleVars, clients, first, connOpen, wireVars, honest, fuel, inventory, trail, parked>>

StrategyPlan ==
    /\ AtStrategy
    /\ \E t \in Targets, c \in BOOLEAN : stack' = Append(stack, PlannerFrame(t, c))
    /\ ret' = NoneRet
    /\ UNCHANGED <<exc, turtleVars, clients, first, connOpen, wireVars, honest, fuel, inventory, trail, parked>>

StrategyCommand ==
    /\ AtStrategy
    /\ \E c \in RawSnippets : stack' = Append(stack, CommandFrame(c))
    /\ ret' = NoneRet
    /\ UNCHANGED <<exc, turtleVars, clients, first, connOpen, wireVars, honest, fuel, inventory, trail, parked>>

StrategyReturn ==
    /\ AtStrategy
    /\ stack' = Pop
    /\ ret' = NoneRet
    /\ UNCHANGED <<exc, turtleVars, clients, first, connOpen, wireVars, honest, fuel, inventory, trail, parked>>

\* The searches the strategy hands to inventory_select.
Searches == {Coal, Torch}

\* The targets the strategy hands to refuel.
RefuelTargets == {-1, 0, 1, 50, FUEL_LIMIT - 1, FUEL_LIMIT}

StrategySelect ==
    /\ AtStrategy
    /\ \E search \in Searches : stack' = Append(stack, InventoryFrame(search))
    /\ ret' = NoneRet
    /\ UNCHANGED <<exc, turtleVars, clients, first, connOpen, wireVars, honest, fuel, inventory, trail, parked>>

StrategyRefuel ==
    /\ AtStrategy
    /\ \E target \in RefuelTargets : stack' = Append(stack, RefuelFrame(target))
    /\ ret' = NoneRet
    /\ UNCHANGED <<exc, turtleVars, clients, first, connOpen, wireVars, honest, fuel, inventory, trail, parked>>

(* ------- turtle.py: drop_item, place_block, inventory_dump ---------------- *)

DropSnippet(d) ==
    CASE d = FORWARD -> Snippet("turtle.drop()")
      [] d = DOWN -> Snippet("turtle.dropDown()")
      [] d = UP -> Snippet("turtle.dropUp()")

PlaceSnippet(d) ==
    CASE d = FORWARD -> Snippet("turtle.place()")
      [] d = DOWN -> Snippet("turtle.placeDown()")
      [] d = UP -> Snippet("turtle.placeUp()")

\* drop_item(d): "entry", then "check" once the agent has replied.
DropFrame(d) == [Frame("drop_item", "entry") EXCEPT !.arg = d]

\* place_block(d): "entry", then "check" once the agent has replied.
PlaceFrame(d) == [Frame("place_block", "entry") EXCEPT !.arg = d]

\* The snippet drop_item or place_block sends for its direction.
InteractionSnippet(f) == IF f.fn = "drop_item" THEN DropSnippet(f.arg) ELSE PlaceSnippet(f.arg)

\* What drop_item or place_block raises when the agent says no.
InteractionFailed(f) ==
    Exc("InteractionException",
        IF f.fn = "drop_item" THEN "Failed to drop item." ELSE "Failed to place block.")

\* res = await self._command(...), or raise CommandException("Bad direction.")
InteractionEntry ==
    /\ Running
    /\ Top.fn \in {"drop_item", "place_block"}
    /\ Top.pc = "entry"
    /\ IF DigSupports(Top.arg)
       THEN /\ stack' = Call("check", CommandFrame(InteractionSnippet(Top)))
            /\ exc' = exc
       ELSE /\ exc' = DigRefusal
            /\ stack' = stack
    /\ UNCHANGED <<ret, turtleVars, clients, first, connOpen, wireVars, honest, fuel, inventory, trail, parked>>

\* Variant: a place_block and drop_item that do not look at the status.
InteractionCheckLenient ==
    /\ Running
    /\ Top.fn \in {"drop_item", "place_block"}
    /\ Top.pc = "check"
    /\ Return(NoneRet)
    /\ UNCHANGED <<exc, turtleVars, clients, first, connOpen, wireVars, honest, fuel, inventory, trail, parked>>

\* if not res.status: raise InteractionException
InteractionCheck ==
    /\ Running
    /\ Top.fn \in {"drop_item", "place_block"}
    /\ Top.pc = "check"
    /\ IF ret.status
       THEN /\ Return(NoneRet)
            /\ exc' = exc
       ELSE /\ exc' = InteractionFailed(Top)
            /\ UNCHANGED <<ret, stack>>
    /\ UNCHANGED <<turtleVars, clients, first, connOpen, wireVars, honest, fuel, inventory, trail, parked>>

DumpFrame(search, d) ==
    [Frame("inventory_dump", "entry") EXCEPT !.search = search, !.arg = d]

\* try: await self.inventory_select(search)
DumpSelect ==
    /\ At("inventory_dump", "entry")
    /\ stack' = Call("select", InventoryFrame(Top.search))
    /\ UNCHANGED <<exc, ret, turtleVars, clients, first, connOpen, wireVars, honest, fuel, inventory, trail, parked>>

\* try: await self.drop_item(direction)
DumpDrop ==
    /\ At("inventory_dump", "select")
    /\ stack' = Call("drop", DropFrame(Top.arg))
    /\ UNCHANGED <<exc, ret, turtleVars, clients, first, connOpen, wireVars, honest, fuel, inventory, trail, parked>>

\* except InventoryException: raise InventoryException("No items to drop.")
\* except InteractionException: raise InventoryException("Failed to drop.")
DumpCaught ==
    /\ stack # <<>>
    /\ Top.fn = "inventory_dump"
    /\ \/ Top.pc = "select" /\ exc.type = "InventoryException"
       \/ Top.pc = "drop" /\ exc.type = "InteractionException"
    /\ exc' = Exc("InventoryException",
                  IF Top.pc = "select" THEN "No items to drop." ELSE "Failed to drop.")
    /\ stack' = SetTop([Top EXCEPT !.pc = "raise"])
    /\ UNCHANGED <<ret, turtleVars, clients, first, connOpen, wireVars, honest, fuel, inventory, trail, parked>>

\* self._logger.info("Dropped %s", search)
DumpDone ==
    /\ At("inventory_dump", "drop")
    /\ Return(NoneRet)
    /\ UNCHANGED <<exc, turtleVars, clients, first, connOpen, wireVars, honest, fuel, inventory, trail, parked>>

(* ---------------------- turtle.py: _process_complete ---------------------- *)

\* Variant: a _process_complete that goes home with the guard still on.
ProcessCompleteGuarded ==
    /\ At("_process_complete", "entry")
    /\ stack' = Call("done", PlannerFrame(home, FALSE))
    /\ UNCHANGED <<exc, ret, turtleVars, clients, first, connOpen, wireVars, honest, fuel, inventory, trail, parked>>

\* self._check_fuel = False; await self.move_to_location(self._home_location)
ProcessComplete ==
    /\ At("_process_complete", "entry")
    /\ check_fuel' = FALSE
    /\ stack' = Call("done", PlannerFrame(home, FALSE))
    /\ UNCHANGED <<exc, ret, loc, bearing, home, attrVars, latest_fuel, steps_from_home,
                   latest_command, clients, first, connOpen, wireVars, honest, fuel, inventory, trail, parked>>


(* ------------------------ turtle.py: StripTurtle -------------------------- *)

branch_spacing == 3

branch_length == 47

branch_pair_count == 8

torch_light == 12

Cobble == <<"c", "o", "b", "b", "l", "e">>

\* self._bad_blocks
BadBlocks == <<Cobble, Dirt, Gravel>>

\* Variant: a required_fuel that counts the trunk there and back.
RequiredFuelTrunkBack == ((branch_spacing + 1) * 2 + (branch_length * 4 + 1)) * branch_pair_count

\* required_fuel of StripTurtle.start
RequiredFuel == ((branch_spacing + 1) + (branch_length * 4 + 1)) * branch_pair_count

\* raise HaltException(f"Not enough fuel to complete trip. ...")
HaltPrerun == Exc("HaltException", "Not enough fuel to complete trip.")

PlaceTorchFrame == Frame("place_torch", "entry")

\* try: await self.inventory_select("torch"); an InventoryException is logged
\* and raised again.
PlaceTorchSelect ==
    /\ At("place_torch", "entry")
    /\ stack' = Call("select", InventoryFrame(Torch))
    /\ UNCHANGED <<exc, ret, turtleVars, clients, first, connOpen, wireVars, honest, fuel, inventory, trail, parked>>

\* else: await self.place_block(Direction.UP)
PlaceTorchPlace ==
    /\ At("place_torch", "select")
    /\ stack' = Call("done", PlaceFrame(UP))
    /\ UNCHANGED <<exc, ret, turtleVars, clients, first, connOpen, wireVars, honest, fuel, inventory, trail, parked>>

\* The frame of start uses i for the branch pair, k for the pass of the pair,
\* j for the innermost loop, mc for the index of bad_block and cost for
\* first_torch.

\* if self.prerun_fuel_check: try: await self.refuel(required_fuel)
StripPrerun ==
    /\ At("start", "loop")
    /\ stack' = Call("refuel", RefuelFrame(RequiredFuel))
    /\ UNCHANGED <<exc, ret, turtleVars, clients, first, connOpen, wireVars, honest, fuel, inventory, trail, parked>>

\* except (InventoryException, ValueError): pass, or refuel has returned;
\* current_fuel = await self.get_fuel()
StripReadFuel ==
    /\ stack # <<>>
    /\ Top.fn = "start"
    /\ Top.pc = "refuel"
    /\ exc.type \in {"none", "InventoryException", "ValueError"}
    /\ exc' = NoExc
    /\ stack' = SetTop([Top EXCEPT !.pc = "prerun"]) \o GetFuelFrames
    /\ UNCHANGED <<ret, turtleVars, clients, first, connOpen, wireVars, honest, fuel, inventory, trail, parked>>

\* if current_fuel < required_fuel: raise HaltException
StripSufficiency ==
    /\ At("start", "prerun")
    /\ IF ret.data < RequiredFuel
       THEN /\ exc' = HaltPrerun
            /\ stack' = stack
       ELSE /\ exc' = exc
            /\ stack' = SetTop([Top EXCEPT !.pc = "trunk", !.i = 0, !.j = 0])
    /\ UNCHANGED <<ret, turtleVars, clients, first, connOpen, wireVars, honest, fuel, inventory, trail, parked>>

\* for _ in range(self.branch_spacing + 1): await self.dig_move(FORWARD)
StripTrunkDigMove ==
    /\ At("start", "trunk")
    /\ stack' = Call("trunk_up", DigMoveFrame(FORWARD))
    /\ UNCHANGED <<exc, ret, turtleVars, clients, first, connOpen, wireVars, honest, fuel, inventory, trail, parked>>

\* await self.dig(Direction.UP), the last statement of the trunk loop
StripTrunkDigUp ==
    /\ At("start", "trunk_up")
    /\ stack' = SetTop([Top EXCEPT
                          !.j = @ + 1,
                          !.pc = IF Top.j + 1 < branch_spacing + 1
                                 THEN "trunk" ELSE "snapshot"])
                  \o DigFrames(UP)
    /\ UNCHANGED <<exc, ret, turtleVars, clients, first, connOpen, wireVars, honest, fuel, inventory, trail, parked>>

\* self._home_location = self.position.location: home is from now on the
\* object that move updates.  Then await self.turn_left().
StripSnapshot ==
    /\ At("start", "snapshot")
    /\ home' = loc
    /\ home_is_position' = TRUE
    /\ stack' = Append(SetTop([Top EXCEPT !.pc = "out", !.j = 0, !.k = 0]),
                       TurnFrame("left"))
    /\ UNCHANGED <<exc, ret, loc, bearing, check_fuel, latest_fuel, steps_from_home,
                   latest_command, do_place_torches, current_light_level,
                   clients, first, connOpen, wireVars, honest, fuel, inventory, trail, parked>>

\* for _ in range(self.branch_length): await self.dig_move(FORWARD)
StripBranchDigMove ==
    /\ At("start", "out")
    /\ stack' = Call("out_up", DigMoveFrame(FORWARD))
    /\ UNCHANGED <<exc, ret, turtleVars, clients, first, connOpen, wireVars, honest, fuel, inventory, trail, parked>>

\* await self.dig(Direction.UP), the last statement of the branch loop
StripBranchDigUp ==
    /\ At("start", "out_up")
    /\ stack' = SetTop([Top EXCEPT
                          !.j = IF Top.j + 1 < branch_length THEN @ + 1 ELSE 0,
                          !.pc = IF Top.j + 1 < branch_length THEN "out" ELSE "about"])
                  \o DigFrames(UP)
    /\ UNCHANGED <<exc, ret, turtleVars, clients, first, connOpen, wireVars, honest, fuel, inventory, trail, parked>>

\* await self.turn_right(); await self.turn_right()
StripTurnAbout ==
    /\ Running
    /\ Top.fn = "start"
    /\ Top.pc \in {"about", "about_again"}
    /\ stack' = Call(IF Top.pc = "about" THEN "about_again" ELSE "dump",
                     TurnFrame("right"))
    /\ UNCHANGED <<exc, ret, turtleVars, clients, first, connOpen, wireVars, honest, fuel, inventory, trail, parked>>

\* for bad_block in self._bad_blocks: while did_drop: try: await
\* self.inventory_dump(bad_block, Direction.UP); after the last bad_block
\* first_torch = True; self.current_light_level = self.torch_light
StripDump ==
    /\ At("start", "dump")
    /\ IF Top.mc < Len(BadBlocks)
       THEN /\ stack' = Append(stack, DumpFrame(BadBlocks[Top.mc + 1], UP))
            /\ current_light_level' = current_light_level
       ELSE /\ stack' = SetTop([Top EXCEPT !.pc = "light", !.mc = 0, !.cost = TRUE, !.j = 0])
            /\ current_light_level' = torch_light
    /\ UNCHANGED <<exc, ret, loc, bearing, home, home_is_position, check_fuel,
                   latest_fuel, steps_from_home, latest_command, do_place_torches,
                   clients, first, connOpen, wireVars, honest, fuel, inventory, trail, parked>>

\* except InventoryException: did_drop = False
StripDumpCaught ==
    /\ stack # <<>>
    /\ Top.fn = "start"
    /\ Top.pc = "dump"
    /\ exc.type = "InventoryException"
    /\ exc' = NoExc
    /\ stack' = SetTop([Top EXCEPT !.mc = @ + 1])
    /\ UNCHANGED <<ret, turtleVars, clients, first, connOpen, wireVars, honest, fuel, inventory, trail, parked>>

\* target_light of the lit return
TargetLight(first_torch) == IF first_torch THEN 0 ELSE -(torch_light + 1)

\* The top of the lit return's loop body: place a torch if it is due, else
\* await self.move(Direction.FORWARD).
StripLight ==
    /\ At("start", "light")
    /\ IF do_place_torches /\ current_light_level <= TargetLight(Top.cost)
       THEN stack' = Append(SetTop([Top EXCEPT !.pc = "torch", !.cost = FALSE]),
                            PlaceTorchFrame)
       ELSE stack' = Call("moved", MoveFrame(FORWARD))
    /\ UNCHANGED <<exc, ret, turtleVars, clients, first, connOpen, wireVars, honest, fuel, inventory, trail, parked>>

\* Variant: a lit return that ends one step early.
StripAdvanceShort(f) ==
    IF f.j + 2 < branch_length THEN [f EXCEPT !.pc = "light", !.j = @ + 1]
    ELSE IF f.k + 1 < 2 THEN [f EXCEPT !.pc = "out", !.j = 0, !.k = @ + 1]
    ELSE [f EXCEPT !.pc = "face", !.j = 0, !.k = 0]

\* The frame of start once the body of the lit return's loop is done: the
\* next branch_position, the second pass of the pair, or the closing turn.
StripAdvance(f) ==
    IF f.j + 1 < branch_length THEN [f EXCEPT !.pc = "light", !.j = @ + 1]
    ELSE IF f.k + 1 < 2 THEN [f EXCEPT !.pc = "out", !.j = 0, !.k = @ + 1]
    ELSE [f EXCEPT !.pc = "face", !.j = 0, !.k = 0]

\* Variant: a failed placement leaves do_place_torches as it was.
StripTorchDoneRetry ==
    /\ stack # <<>>
    /\ Top.fn = "start"
    /\ Top.pc \in {"torch", "end_torch"}
    /\ exc.type \in {"none", "InventoryException"}
    /\ exc' = NoExc
    /\ current_light_level' = IF exc = NoExc THEN torch_light ELSE current_light_level
    /\ do_place_torches' = do_place_torches
    /\ stack' = SetTop(IF Top.pc = "torch" THEN [Top EXCEPT !.pc = "step"]
                       ELSE StripAdvance(Top))
    /\ UNCHANGED <<ret, loc, bearing, home, home_is_position, check_fuel, latest_fuel,
                   steps_from_home, latest_command, clients, first, connOpen,
                   wireVars, honest, fuel, inventory, trail, parked>>

\* place_torch is over: else: self.current_light_level = self.torch_light, or
\* except InventoryException: self.do_place_torches = False
StripTorchDone ==
    /\ stack # <<>>
    /\ Top.fn = "start"
    /\ Top.pc \in {"torch", "end_torch"}
    /\ exc.type \in {"none", "InventoryException"}
    /\ exc' = NoExc
    /\ IF exc = NoExc
       THEN current_light_level' = torch_light /\ do_place_torches' = do_place_torches
       ELSE current_light_level' = current_light_level /\ do_place_torches' = FALSE
    /\ stack' = SetTop(IF Top.pc = "torch" THEN [Top EXCEPT !.pc = "step"]
                       ELSE StripAdvance(Top))
    /\ UNCHANGED <<ret, loc, bearing, home, home_is_position, check_fuel, latest_fuel,
                   steps_from_home, latest_command, clients, first, connOpen,
                   wireVars, honest, fuel, inventory, trail, parked>>

\* await self.move(Direction.FORWARD) after the torch
StripWalk ==
    /\ At("start", "step")
    /\ stack' = Call("moved", MoveFrame(FORWARD))
    /\ UNCHANGED <<exc, ret, turtleVars, clients, first, connOpen, wireVars, honest, fuel, inventory, trail, parked>>

\* self.current_light_level -= 1, and the torch at the end of the branch
StripWalked ==
    /\ At("start", "moved")
    /\ current_light_level' = current_light_level - 1
    /\ IF Top.j = branch_length - 2 /\ do_place_torches /\ current_light_level - 1 <= -1
       THEN stack' = Call("end_torch", PlaceTorchFrame)
       ELSE stack' = SetTop(StripAdvance(Top))
    /\ UNCHANGED <<exc, ret, loc, bearing, home, home_is_position, check_fuel,
                   latest_fuel, steps_from_home, latest_command, do_place_torches,
                   clients, first, connOpen, wireVars, honest, fuel, inventory, trail, parked>>

\* await self.turn_right() at the end of a branch pair
StripFace ==
    /\ At("start", "face")
    /\ stack' = Call("paired", TurnFrame("right"))
    /\ UNCHANGED <<exc, ret, turtleVars, clients, first, connOpen, wireVars, honest, fuel, inventory, trail, parked>>

\* for _ in range(self.branch_pair_count): the next pair, or start returns.
StripPaired ==
    /\ At("start", "paired")
    /\ IF Top.i + 1 < branch_pair_count
       THEN /\ stack' = SetTop([Top EXCEPT !.pc = "trunk", !.i = @ + 1, !.j = 0])
            /\ ret' = ret
       ELSE Return(NoneRet)
    /\ UNCHANGED <<exc, turtleVars, clients, first, connOpen, wireVars, honest, fuel, inventory, trail, parked>>


(* ------------------------ turtle.py: QuarryTurtle ------------------------- *)

xz_size == 8

y_size == 10

\* The frame of start uses i for the layer, j for row_number and k for the
\* innermost loop.

\* prerun_fuel_check is False: start goes straight to its loops.
QuarryStart ==
    /\ At("start", "loop")
    /\ stack' = SetTop([Top EXCEPT !.pc = "row", !.i = 0, !.j = 0, !.k = 0])
    /\ UNCHANGED <<exc, ret, turtleVars, clients, first, connOpen, wireVars, honest, fuel, inventory, trail, parked>>

\* for _ in range(xz_size - 1): await self.dig_move(Direction.FORWARD)
QuarryDigMove ==
    /\ At("start", "row")
    /\ stack' = Append(SetTop([Top EXCEPT
                                 !.k = @ + 1,
                                 !.pc = IF Top.k + 1 < xz_size - 1 THEN "row" ELSE "turn"]),
                       DigMoveFrame(FORWARD))
    /\ UNCHANGED <<exc, ret, turtleVars, clients, first, connOpen, wireVars, honest, fuel, inventory, trail, parked>>

\* Variant: rows that turn to the other side.
RowSideFlipped(row_number) == IF row_number % 2 = 0 THEN "left" ELSE "right"

\* The side a row turns to on its way to the next row.
RowSide(row_number) == IF row_number % 2 = 0 THEN "right" ELSE "left"

\* The side the turtle turns to when a layer is done.
LayerSide == IF xz_size % 2 = 0 THEN "right" ELSE "left"

\* The first turn at the end of a row, or the turn at the end of the layer.
QuarryTurn ==
    /\ At("start", "turn")
    /\ IF Top.j < xz_size - 1
       THEN stack' = Call("shift", TurnFrame(RowSide(Top.j)))
       ELSE stack' = Call("down", TurnFrame(LayerSide))
    /\ UNCHANGED <<exc, ret, turtleVars, clients, first, connOpen, wireVars, honest, fuel, inventory, trail, parked>>

\* await self.dig_move(Direction.FORWARD) between the two turns
QuarryShift ==
    /\ At("start", "shift")
    /\ stack' = Call("turn_again", DigMoveFrame(FORWARD))
    /\ UNCHANGED <<exc, ret, turtleVars, clients, first, connOpen, wireVars, honest, fuel, inventory, trail, parked>>

\* The second turn; the next row follows.
QuarryTurnAgain ==
    /\ At("start", "turn_again")
    /\ stack' = Append(SetTop([Top EXCEPT !.pc = "row", !.j = @ + 1, !.k = 0]),
                       TurnFrame(RowSide(Top.j)))
    /\ UNCHANGED <<exc, ret, turtleVars, clients, first, connOpen, wireVars, honest, fuel, inventory, trail, parked>>

\* await self.dig_move(Direction.DOWN), the last statement of a layer
QuarryDown ==
    /\ At("start", "down")
    /\ stack' = Append(SetTop([Top EXCEPT
                                 !.i = @ + 1, !.j = 0, !.k = 0,
                                 !.pc = IF Top.i + 1 < y_size + 1 THEN "row" ELSE "complete"]),
                       DigMoveFrame(DOWN))
    /\ UNCHANGED <<exc, ret, turtleVars, clients, first, connOpen, wireVars, honest, fuel, inventory, trail, parked>>

\* await self._process_complete()
QuarryComplete ==
    /\ At("start", "complete")
    /\ stack' = Call("done", Frame("_process_complete", "entry"))
    /\ UNCHANGED <<exc, ret, turtleVars, clients, first, connOpen, wireVars, honest, fuel, inventory, trail, parked>>

(* ------------- Turtle.start: digging and interacting directly -------------- *)

\* dig(d) before it has looked at its direction
DigFrame(d) == [Frame("dig", "entry") EXCEPT !.arg = d]

\* await self._command(...) for FORWARD, DOWN, UP; else raise CommandException
DigEntry ==
    /\ At("dig", "entry")
    /\ IF DigSupports(Top.arg)
       THEN /\ stack' = Call("done", CommandFrame(DigSnippet(Top.arg)))
            /\ exc' = exc
       ELSE /\ exc' = DigRefusal
            /\ stack' = stack
    /\ UNCHANGED <<ret, turtleVars, clients, first, connOpen, wireVars, honest, fuel, inventory, trail, parked>>

StrategyDig ==
    /\ AtStrategy
    /\ \E d \in Directions : stack' = Append(stack, DigFrame(d))
    /\ ret' = NoneRet
    /\ UNCHANGED <<exc, turtleVars, clients, first, connOpen, wireVars, honest, fuel, inventory, trail, parked>>

StrategyInteract ==
    /\ AtStrategy
    /\ \E d \in Directions : stack' \in {Append(stack, PlaceFrame(d)), Append(stack, DropFrame(d))}
    /\ ret' = NoneRet
    /\ UNCHANGED <<exc, turtleVars, clients, first, connOpen, wireVars, honest, fuel, inventory, trail, parked>>

(* ----------- turtle.py: inspect and StripTurtle.falling_block_check ------- *)

InspectFrame(d) == [Frame("inspect", "entry") EXCEPT !.arg = d]

\* res = await self._command(...) for FORWARD, DOWN, UP; else raise
\* CommandException("Bad direction.")
InspectEntry ==
    /\ At("inspect", "entry")
    /\ IF Top.arg \in {FORWARD, DOWN, UP}
       THEN /\ stack' = Call("reply", CommandFrame(InspectSnippet(Top.arg)))
            /\ exc' = exc
       ELSE /\ exc' = Exc("CommandException", "Bad direction.")
            /\ stack' = stack
    /\ UNCHANGED <<ret, turtleVars, clients, first, connOpen, wireVars, honest, fuel, inventory, trail, parked>>

\* if res.status: return res.data else: return {}
InspectReply ==
    /\ At("inspect", "reply")
    /\ Return(Ret("dict", TRUE, IF ret.status THEN ret.data ELSE EmptyDict))
    /\ UNCHANGED <<exc, turtleVars, clients, first, connOpen, wireVars, honest, fuel, inventory, trail, parked>>

\* falling_blocks = ["gravel", "sand"]
falling_blocks == <<Gravel, Sand>>

\* The key falling_block_check looks up in the block metadata.
NameKey == "name "

FallingFrame == Frame("falling_block_check", "entry")

\* while True: data = await self.inspect(Direction.FORWARD)
FallingInspect ==
    /\ At("falling_block_check", "entry")
    /\ stack' = Call("inspected", InspectFrame(FORWARD))
    /\ UNCHANGED <<exc, ret, turtleVars, clients, first, connOpen, wireVars, honest, fuel, inventory, trail, parked>>

\* any(falling_block in name for falling_block in falling_blocks)
IsFalling(name) == \E n \in 1..Len(falling_blocks) : Contains(falling_blocks[n], name)

\* name = data.get("name ", ""); a falling block is dug and the loop goes
\* round, else: break
FallingDecide ==
    /\ At("falling_block_check", "inspected")
    /\ IF IsFalling(DictGet(ret.data, NameKey, <<>>))
       THEN /\ stack' = Call("entry", DigFrame(FORWARD))
            /\ ret' = ret
       ELSE Return(NoneRet)
    /\ UNCHANGED <<exc, turtleVars, clients, first, connOpen, wireVars, honest, fuel, inventory, trail, parked>>

\* TestTurtle.start: await self.falling_block_check()
StrategyFalling ==
    /\ AtStrategy
    /\ stack' = Append(stack, FallingFrame)
    /\ ret' = NoneRet
    /\ UNCHANGED <<exc, turtleVars, clients, first, connOpen, wireVars, honest, fuel, inventory, trail, parked>>

StrategyInspect ==
    /\ AtStrategy
    /\ \E d \in Directions : stack' = Append(stack, InspectFrame(d))
    /\ ret' = NoneRet
    /\ UNCHANGED <<exc, turtleVars, clients, first, connOpen, wireVars, honest, fuel, inventory, trail, parked>>

(* --------------------------- specifications ------------------------------- *)

Supervisor ==
    \/ HandlerRecv \/ HandlerTypeError \/ HandlerReject \/ HandlerRegister
    \/ RegisterEntry \/ RegisterStart \/ RegisterFinally
    \/ Propagate

Channel == CommandSend \/ CommandRecv

Faults == CommandRecvGarbage \/ Cancel \/ AgentDisconnect

Moving ==
    \/ MoveGuard \/ MoveStep
    \/ GetFuelCheck \/ CheckFuelDecide \/ CheckFuelHalt
    \/ PlannerEntry \/ PlannerStep

Turning == TurnLeft \/ TurnRight

Digging == DigMoveDig \/ DigMoveMove

Next ==
    \/ Supervisor \/ Channel \/ Faults \/ Moving \/ Turning \/ Digging
    \/ StrategyMove \/ StrategyDigMove \/ StrategyTurn \/ StrategyPlan
    \/ StrategyCommand \/ StrategyReturn

Spec == Init /\ [][Next]_vars

\* The stub agent, a strategy of moves and turns, and the turns recorded.
InitTurns == InitBase /\ honest /\ trail = Trail(TRUE, <<>>)

NextTurns ==
    \/ Supervisor \/ Channel \/ Moving \/ Turning \/ Digging
    \/ StrategyMove \/ StrategyTurn \/ StrategyReturn

SpecTurns == InitTurns /\ [][NextTurns]_vars

\* Any agent, and a strategy of inventory_select and refuel calls.
Inventory == InventoryEntry \/ InventoryReply

Refuelling ==
    \/ RefuelEntry \/ RefuelBurn \/ RefuelRead \/ RefuelDecide
    \/ RefuelCaught \/ RefuelFinal \/ GetFuelCheck

NextInventory ==
    \/ Supervisor \/ Channel \/ Faults \/ Inventory \/ Refuelling
    \/ StrategySelect \/ StrategyRefuel \/ StrategyReturn

SpecInventory == Init /\ [][NextInventory]_vars

\* The stub agent with a tank that lasts, driven by a StripTurtle.
InitStrip ==
    /\ InitTurtle
    /\ parked = <<>>
    /\ honest = TRUE
    /\ fuel \in {RequiredFuel - 1, AmpleFuel}
    /\ inventory = NoInventory
    /\ trail = Trail(FALSE, <<>>)

Interacting == InteractionEntry \/ InteractionCheck

Dumping == DumpSelect \/ DumpDrop \/ DumpCaught \/ DumpDone

Lighting == PlaceTorchSelect \/ PlaceTorchPlace

Stripmine ==
    \/ StripPrerun \/ StripReadFuel \/ StripSufficiency
    \/ StripTrunkDigMove \/ StripTrunkDigUp \/ StripSnapshot
    \/ StripBranchDigMove \/ StripBranchDigUp \/ StripTurnAbout
    \/ StripDump \/ StripDumpCaught
    \/ StripLight \/ StripTorchDone \/ StripWalk \/ StripWalked
    \/ StripFace \/ StripPaired

NextStrip ==
    \/ Supervisor \/ Channel
    \/ MoveGuard \/ MoveStep \/ GetFuelCheck \/ CheckFuelDecide
    \/ Turning \/ Digging \/ Inventory \/ RefuelEntry
    \/ Interacting \/ Dumping \/ Lighting \/ Stripmine

SpecStrip == InitStrip /\ [][NextStrip]_vars

\* The stub agent with a tank that lasts, driven by a QuarryTurtle.
InitQuarry ==
    /\ InitTurtle
    /\ parked = <<>>
    /\ honest = TRUE
    /\ fuel = AmpleFuel
    /\ inventory = NoInventory
    /\ trail = Trail(FALSE, <<>>)

Quarry ==
    \/ QuarryStart \/ QuarryDigMove \/ QuarryTurn \/ QuarryShift
    \/ QuarryTurnAgain \/ QuarryDown \/ QuarryComplete

NextQuarry ==
    \/ Supervisor \/ Channel
    \/ MoveGuard \/ MoveStep \/ GetFuelCheck \/ CheckFuelDecide
    \/ PlannerEntry \/ PlannerStep \/ ProcessComplete
    \/ Turning \/ Digging \/ Quarry

SpecQuarry == InitQuarry /\ [][NextQuarry]_vars

\* Any agent, and a strategy that digs, places, drops and dig-moves.
NextInteract ==
    \/ Supervisor \/ Channel \/ Faults \/ Moving \/ TurnRight \/ Digging
    \/ DigEntry \/ Interacting
    \/ StrategyDig \/ StrategyInteract \/ StrategyDigMove \/ StrategyReturn

SpecInteract == Init /\ [][NextInteract]_vars

Inspecting == InspectEntry \/ InspectReply

Falling == FallingInspect \/ FallingDecide

\* Any agent, and a strategy that inspects, digs and checks for falling blocks.
NextFalling ==
    \/ Supervisor \/ Channel \/ Faults \/ DigEntry \/ Inspecting \/ Falling
    \/ StrategyDig \/ StrategyInspect \/ StrategyFalling \/ StrategyReturn

SpecFalling == Init /\ [][NextFalling]_vars

\* The inventories the agent of the termination check may start with.
Inventories ==
    {EmptySlots}
      \cup {[EmptySlots EXCEPT ![slot] = ItemData(FALSE, name, 1)] :
               slot \in {1, SlotCount}, name \in {Coal, CoalOre, Dirt}}
      \cup {[EmptySlots EXCEPT ![2] = ItemData(FALSE, Coal, 1),
                               ![SlotCount] = ItemData(FALSE, name, 1)] :
               name \in {Charcoal, CoalOre}}

\* An agent that keeps an inventory and answers every command.
InitStock ==
    /\ InitTurtle
    /\ parked = <<>>
    /\ honest = TRUE
    /\ fuel \in {0, FUEL_LIMIT - 1}
    /\ inventory \in [slots : Inventories, selected : {1}]
    /\ trail = Trail(FALSE, <<>>)

NextStock ==
    \/ Supervisor \/ Channel \/ Inventory \/ Refuelling
    \/ StrategyRefuel \/ StrategyReturn

\* The task of the connection is scheduled whenever it can take a step (every
\* step moves the stack, the exception or the wire).
SpecStock == InitStock /\ [][NextStock]_vars /\ WF_<<stack, exc, tick>>(NextStock)

(* -------------------- two connections, one event loop -------------------- *)

\* What belongs to one connection: the coroutines of its handler task, the
\* attributes of the Turtle made for it in register (the class attributes are
\* immutable defaults, every write is self.x = ..., and _position is made in
\* __init__), its websocket and the agent at the other end.
Context(conn) ==
    [conn |-> conn, stack |-> stack, exc |-> exc, ret |-> ret,
     loc |-> loc, bearing |-> bearing, home |-> home,
     home_is_position |-> home_is_position, check_fuel |-> check_fuel,
     latest_fuel |-> latest_fuel, steps_from_home |-> steps_from_home,
     latest_command |-> latest_command, do_place_torches |-> do_place_torches,
     current_light_level |-> current_light_level,
     first |-> first, connOpen |-> connOpen, lastFrame |-> lastFrame,
     tick |-> tick, outstanding |-> outstanding,
     honest |-> honest, fuel |-> fuel, inventory |-> inventory, trail |-> trail]

\* The event loop suspends the running task where it sends or receives (or
\* when it has ended) and resumes the task of the other connection.  The
\* active set is an attribute of the SocketServer class: it is not part of
\* either task.
Switch ==
    /\ parked # <<>>
    /\ AtSocket \/ stack = <<>>
    /\ parked[1].stack # <<>>
    /\ parked' = <<Context(Self)>>
    /\ stack' = parked[1].stack
    /\ exc' = parked[1].exc
    /\ ret' = parked[1].ret
    /\ loc' = parked[1].loc
    /\ bearing' = parked[1].bearing
    /\ home' = parked[1].home
    /\ home_is_position' = parked[1].home_is_position
    /\ check_fuel' = parked[1].check_fuel
    /\ latest_fuel' = parked[1].latest_fuel
    /\ steps_from_home' = parked[1].steps_from_home
    /\ latest_command' = parked[1].latest_command
    /\ do_place_torches' = parked[1].do_place_torches
    /\ current_light_level' = parked[1].current_light_level
    /\ first' = parked[1].first
    /\ connOpen' = parked[1].connOpen
    /\ lastFrame' = parked[1].lastFrame
    /\ tick' = parked[1].tick
    /\ outstanding' = parked[1].outstanding
    /\ honest' = parked[1].honest
    /\ fuel' = parked[1].fuel
    /\ inventory' = parked[1].inventory
    /\ trail' = parked[1].trail
    /\ UNCHANGED clients

\* The tank of each of the two stub agents: one move, and the guard trips
\* before the second.
PairFuels == {2}

\* Two connections have been accepted; the task of the first runs, the task
\* of the second waits for its turn.
InitPair ==
    /\ InitTurtle
    /\ honest = TRUE
    /\ fuel \in PairFuels
    /\ inventory = NoInventory
    /\ trail = Trail(FALSE, <<>>)
    /\ parked \in {<<[Context(2) EXCEPT !.fuel = f]>> : f \in PairFuels}

NextPair ==
    \/ Supervisor \/ Channel \/ Moving \/ TurnRight \/ Digging
    \/ StrategyMove \/ StrategyReturn
    \/ Switch

SpecPair == InitPair /\ [][NextPair]_vars

(* ------------------------------- claims ----------------------------------- *)

\* |dx| + |dy| + |dz|
Manhattan(a, b) == Abs(a.x - b.x) + Abs(a.y - b.y) + Abs(a.z - b.z)

\* The guard of frame i has decided to return home.
GuardReturning(i) == stack[i].fn = "check_fuel" /\ stack[i].pc = "halt"

\* C1: against the always-success stub whose tank a movement empties by one,
\* whenever the fuel guard decides to return home the fuel it has just read is
\* at least the return cost, and between commands the tank never holds less
\* than the number of steps back home.
C1_GuardFuelSafety ==
    honest =>
      /\ \A i \in 1..Len(stack) : GuardReturning(i) => latest_fuel >= steps_from_home
      /\ outstanding = 0 => fuel >= Manhattan(loc, home)

\* C2: when the guard of move reads a fuel level that the Manhattan distance
\* to home reaches, check_fuel becomes false and the planner is started for
\* home; while it runs no getFuelLevel is issued and the requested move has
\* not been made; it ends with HaltException "Returned ...", raised at
\* (home, NORTH), which also takes the move's frame off the stack.
C2_GuardPreempts ==
    /\ [](\A i \in 1..Len(stack) : GuardReturning(i) =>
            /\ ~check_fuel
            /\ i > 1 /\ stack[i - 1].fn = "move" /\ stack[i - 1].pc = "step"
            /\ \A j \in (i + 1)..Len(stack) :
                 /\ stack[j].fn \notin {"check_fuel", "get_fuel"}
                 /\ stack[j].cmd # GetFuelSnippet)
    /\ [](exc = HaltReturned => loc = home /\ bearing = NORTH /\ ~check_fuel)
    /\ [][At("check_fuel", "decide") /\ Manhattan(loc, home) >= ret.data =>
            /\ ~check_fuel'
            /\ Len(stack') = Len(stack) + 1
            /\ stack'[Len(stack)].pc = "halt"
            /\ stack'[Len(stack')] = PlannerFrame(home, FALSE)
            /\ UNCHANGED wireVars]_vars
    /\ [][At("check_fuel", "halt") => exc' = HaltReturned /\ UNCHANGED wireVars]_vars
    /\ [][exc = HaltReturned /\ stack # <<>> /\ Top.fn = "check_fuel" =>
            \A j \in 1..Len(stack') : stack'[j].fn \notin {"move", "check_fuel"}]_vars

\* C2 happens: the stub agent was brought home from a distance by the guard.
C2_Witness ==
    /\ honest
    /\ exc = HaltReturned
    /\ steps_from_home > 0
    /\ loc = home

\* C3: at most one command frame is without its reply, and a command frame
\* is sent only when none is.
C3_SingleOutstanding ==
    /\ [](outstanding \in {0, 1})
    /\ [][tick' # tick /\ lastFrame'.type = "command" =>
            outstanding = 0 /\ outstanding' = 1]_vars

\* C3 happens: the command of a move is out after the guard's getFuelLevel
\* was answered.
C3_Witness ==
    /\ outstanding = 1
    /\ lastFrame = CommandMessage(MoveSnippet(FORWARD))
    /\ check_fuel
    /\ latest_fuel > 0

\* C4 as stated: the first frame comes from the agent and no two consecutive
\* frames travel in the same direction.
C4_StrictAlternation ==
    [][tick' # tick =>
         /\ lastFrame = NoFrame => lastFrame'.dir = "a2c"
         /\ lastFrame'.dir # lastFrame.dir]_vars

\* C4 amended: the first frame comes from the agent, and two consecutive
\* frames travel in the same direction only when the first is the Registered
\* acknowledgement or the second is Deregistered; both are then frames of the
\* controller.
C4_AlternationButAcks ==
    [][tick' # tick =>
         /\ lastFrame = NoFrame => lastFrame'.dir = "a2c"
         /\ lastFrame'.dir = lastFrame.dir =>
              /\ lastFrame.dir = "c2a"
              /\ \/ lastFrame = DataMessage("Registered")
                 \/ lastFrame' = DataMessage("Deregistered")]_vars

\* C4 happens: a run with answered commands has ended with Deregistered.
C4_Witness ==
    /\ stack = <<>>
    /\ lastFrame = DataMessage("Deregistered")
    /\ Len(latest_command) = 3
    /\ latest_command[3] = "(SUCCESS)"

\* C5: every command frame carries a snippet with "return"; _command called
\* with a snippet without it raises CommandException at its next step, sends
\* nothing and leaves latest_command as it was.
C5_CommandForm ==
    /\ [](lastFrame.type = "command" => HasReturn(lastFrame.body))
    /\ [][At("_command", "entry") /\ ~HasReturn(Top.cmd) /\ connOpen' = connOpen =>
            /\ exc' = Exc("CommandException", "Command must return a value.")
            /\ UNCHANGED <<lastFrame, tick, outstanding, latest_command, parked>>]_vars

\* C5 happens: a snippet without "return" was refused after another command
\* had been sent.
C5_Witness ==
    /\ exc = Exc("CommandException", "Command must return a value.")
    /\ latest_command # <<>>
    /\ stack # <<>>
    /\ Top.fn = "_command"
    /\ ~HasReturn(Top.cmd)

\* C6: once the connection task has ended, its record is not in the active set.
C6_CleanupAlways == stack = <<>> => clients = {}

\* C7: a record enters the active set only for a first frame that is a JSON
\* object of type "register" with an integer id; every other first frame is
\* answered with an error frame and dispatched without register() being called.
C7_HandshakeRejects ==
    /\ [][clients = {} /\ clients' # {} =>
            first.json = "object" /\ first.type = "register" /\ first.id]_vars
    /\ [][/\ At("handler", "dispatch")
          /\ connOpen
          /\ ~(first.json = "object" /\ first.type = "register" /\ first.id)
          /\ stack' # stack \/ exc' # exc
          => lastFrame'.type = "error" /\ exc' # NoExc]_vars

\* The step table of the claim: the unit vector of move(d) at bearing b.
StepVector(b, d) ==
    LET fwd == CASE b = NORTH -> Loc(0, 0, -1)
                 [] b = EAST -> Loc(1, 0, 0)
                 [] b = SOUTH -> Loc(0, 0, 1)
                 [] b = WEST -> Loc(-1, 0, 0)
    IN  CASE d = FORWARD -> fwd
          [] d = BACK -> Loc(-fwd.x, -fwd.y, -fwd.z)
          [] d = UP -> Loc(0, 1, 0)
          [] d = DOWN -> Loc(0, -1, 0)

\* The frame of move(d) is the innermost call but for its own _command.
InMove(d) ==
    /\ Running
    /\ \/ Top.fn = "move" /\ Top.arg = d
       \/ /\ Top.fn = "_command"
          /\ Len(stack) > 1
          /\ stack[Len(stack) - 1].fn = "move"
          /\ stack[Len(stack) - 1].arg = d

\* C8: move(d) leaves the bearing alone and changes the location once, by
\* the unit vector of the step table: when it makes its step, and not again
\* while its command is sent and answered.
C8_MoveEffect ==
    [][\A d \in Directions : InMove(d) =>
         /\ bearing' = bearing
         /\ IF Top.fn = "move" /\ (Top.pc = "step" \/ ~check_fuel)
            THEN /\ loc'.x = loc.x + StepVector(bearing, d).x
                 /\ loc'.y = loc.y + StepVector(bearing, d).y
                 /\ loc'.z = loc.z + StepVector(bearing, d).z
            ELSE loc' = loc]_vars

\* C8 happens: a move(BACK) facing EAST has been answered, west of home.
C8_Witness ==
    /\ AtStrategy
    /\ bearing = EAST
    /\ loc = Loc(-1, 0, 0)
    /\ latest_command = Stamp(MoveSnippet(BACK), "(SUCCESS)")

\* The last k recorded turns are all of kind side.
LastTurns(k, side) ==
    /\ Len(trail.seen) >= k
    /\ \A i \in (Len(trail.seen) - k + 1)..Len(trail.seen) : trail.seen[i].op = side

\* The pose the k-th last recorded turn started from is the current one.
BackAt(k) ==
    /\ trail.seen[Len(trail.seen) - k + 1].bearing = bearing
    /\ trail.seen[Len(trail.seen) - k + 1].loc = loc

\* C9: a turn_left directly followed by a turn_right, or the reverse, restores
\* the pose; four turns of the same kind in a row restore it too; throughout
\* a run of turns the bearing is one of the four and the location stays.
C9_TurnLaws ==
    /\ bearing \in {0, 1, 2, 3}
    /\ \A i \in 1..Len(trail.seen) : trail.seen[i].loc = loc
    /\ Len(trail.seen) >= 2 =>
         LET n == Len(trail.seen)
         IN  trail.seen[n].op # trail.seen[n - 1].op => BackAt(2)
    /\ LastTurns(4, "right") \/ LastTurns(4, "left") => BackAt(4)

\* C9 happens: four turn_right in a row, the last one answered.
C9_Witness ==
    /\ AtStrategy
    /\ LastTurns(4, "right")
    /\ bearing = EAST

\* C10: move_to_location(T, cost_calculation=True) returns the Manhattan
\* distance from the location to T in one step that sends nothing and
\* changes no field of the turtle.
C10_PlannerCostLaw ==
    [][At("move_to_location", "entry") /\ Top.cost =>
         /\ ret' = IntRet(Manhattan(Top.tgt, loc))
         /\ stack' = Finished(Pop)
         /\ exc' = NoExc
         /\ UNCHANGED <<turtleVars, wireVars, parked>>]_vars

\* C10 happens: the cost of a target three steps away, on all three axes,
\* was returned to the strategy away from home.
C10_Witness ==
    /\ AtStrategy
    /\ ret = IntRet(3)
    /\ loc = Loc(0, 1, 0)
    /\ bearing = WEST
    /\ check_fuel

\* The planner is at one of its loops.
InPlanner ==
    /\ Running
    /\ Top.fn = "move_to_location"
    /\ Top.pc \in {"y", "xturn", "x", "zturn", "z", "nturn"}

\* C11: when move_to_location(T) returns, the location is T, the bearing is
\* NORTH and the value returned is the Manhattan distance between T and the
\* location the call started at.
C11_PlannerArrival ==
    [][InPlanner /\ Len(stack') < Len(stack) /\ exc' = NoExc =>
         /\ loc = Top.tgt
         /\ bearing = NORTH
         /\ UNCHANGED <<loc, bearing, parked>>
         /\ Len(stack') = Len(stack) - 1 =>
              ret' = IntRet(Abs(Top.diff.x) + Abs(Top.diff.y) + Abs(Top.diff.z))]_vars

\* C11 happens: the planner has arrived at a target three steps from where
\* it started, on all three axes, and returned 3 to the strategy.
C11_Witness ==
    /\ AtStrategy
    /\ ret = IntRet(3)
    /\ loc = Loc(-1, 0, 1)
    /\ bearing = NORTH

\* The snippets of turn_left and turn_right.
TurnSnippets == {Snippet("turtle.turnLeft()"), Snippet("turtle.turnRight()")}

\* The innermost call is the _command of a move or of a turn.
InStepCommand ==
    /\ stack # <<>>
    /\ Top.fn = "_command"
    /\ Top.cmd \in MovementSnippets \cup TurnSnippets

BeforeStep(l, b, d) ==
    Loc(l.x - StepVector(b, d).x, l.y - StepVector(b, d).y, l.z - StepVector(b, d).z)

\* C13: with check_fuel true, the frame that travelled last before a movement
\* command is the successful reply to a getFuelLevel command, latest_fuel is
\* the value it carried and steps_from_home is the Manhattan distance from
\* the location before the step to home; with check_fuel false no get_fuel
\* is in progress and move sends its command without a read.
C13_GuardBeforeMove ==
    /\ [][/\ tick' # tick
          /\ lastFrame'.type = "command"
          /\ lastFrame'.body \in MovementSnippets
          /\ check_fuel
          => /\ lastFrame.type = "response"
             /\ lastFrame.status = TRUE
             /\ latest_command = Stamp(GetFuelSnippet, "(SUCCESS)")
             /\ latest_fuel = lastFrame.data
             /\ Len(stack) > 1
             /\ stack[Len(stack) - 1].fn = "move"
             /\ steps_from_home =
                  Manhattan(BeforeStep(loc, bearing, stack[Len(stack) - 1].arg), home)]_vars
    /\ [](~check_fuel => \A i \in 1..Len(stack) : stack[i].fn # "get_fuel")
    /\ [][/\ Running
          /\ Top.fn = "move"
          /\ ~check_fuel
          => /\ Len(stack') = Len(stack) + 1
             /\ stack'[Len(stack')].cmd \in MovementSnippets]_vars

\* C13 happens: the command of a move(UP) made one step from home is out,
\* after a read of 2 units of fuel.
C13_Witness ==
    /\ outstanding = 1
    /\ lastFrame = CommandMessage(MoveSnippet(UP))
    /\ check_fuel
    /\ latest_fuel = 2
    /\ steps_from_home = 1
    /\ loc = Loc(0, 1, -1)

\* What get_fuel raises for a reply with status=false.
FuelReadFailed == Exc("CommandException", "Failed to get fuel level.")

\* The fuel read of a guard is in progress.
InGuardRead ==
    \E i \in 2..Len(stack) : stack[i].fn = "get_fuel" /\ stack[i - 1].fn = "check_fuel"

\* C14: a reply with status=false to the getFuelLevel of the guard makes
\* get_fuel raise CommandException; from the start of the read on, and while
\* the exception travels, pose, home, check_fuel, latest_fuel and
\* steps_from_home keep their values and no command frame is sent; the
\* exception takes the move's frame off the stack before it made its step.
C14_FatalFuelRead ==
    /\ [][InGuardRead /\ At("get_fuel", "check") /\ ret.status = FALSE =>
            exc' = FuelReadFailed /\ UNCHANGED wireVars]_vars
    /\ [][InGuardRead \/ exc = FuelReadFailed =>
            /\ UNCHANGED <<loc, bearing, home, check_fuel, latest_fuel, steps_from_home, parked>>
            /\ tick' # tick => lastFrame'.body \notin MovementSnippets]_vars
    /\ [][InGuardRead /\ exc = FuelReadFailed =>
            \A i \in 1..Len(stack') : stack'[i].fn \notin {"move", "check_fuel", "get_fuel"}]_vars

\* C14 happens: one step from home, after a first read of 1, the second
\* read of the guard was answered with status=false.
C14_Witness ==
    /\ exc = FuelReadFailed
    /\ latest_command = Stamp(GetFuelSnippet, "(FAILURE)")
    /\ loc = Loc(0, 0, -1)
    /\ latest_fuel = 1
    /\ steps_from_home = 0
    /\ check_fuel

Selecting == stack[Len(stack) - 1]

\* A command frame of inventory_select travels in this step.
SelectSends ==
    /\ tick' # tick
    /\ lastFrame'.type = "command"
    /\ Len(stack) > 1
    /\ Selecting.fn = "inventory_select"

\* C16: inventory_select asks for slot 1 first and for slot n + 1 only after
\* a reply for slot n that is null or does not contain search; a reply for
\* slot n that contains search is followed by select(n), the only select, and
\* by the return of inventory_select once that is answered; a reply for slot
\* 16 that is no match raises InventoryException without a frame being sent,
\* and nothing else raises it.
C16_InventorySelect ==
    /\ [][SelectSends /\ lastFrame'.body[2] = "turtle.getItemDetail(" =>
            /\ lastFrame'.body = ItemDetailSnippet(Selecting.n)
            /\ Selecting.n \in 1..16
            /\ Selecting.n > 1 =>
                 /\ lastFrame.type = "response"
                 /\ SubSeq(latest_command, 1, Len(latest_command) - 1)
                      = ItemDetailSnippet(Selecting.n - 1)
                 /\ lastFrame.item.null \/ ~Contains(Selecting.search, lastFrame.item.name)]_vars
    /\ [][SelectSends /\ lastFrame'.body[2] = "turtle.select(" =>
            /\ lastFrame'.body = SelectSnippet(Selecting.n)
            /\ lastFrame.type = "response"
            /\ SubSeq(latest_command, 1, Len(latest_command) - 1)
                 = ItemDetailSnippet(Selecting.n)
            /\ ~lastFrame.item.null
            /\ Contains(Selecting.search, lastFrame.item.name)]_vars
    /\ [][At("inventory_select", "reply") =>
            IF ~ret.item.null /\ Contains(Top.search, ret.item.name)
            THEN /\ exc' = NoExc
                 /\ stack'[Len(stack')].cmd = SelectSnippet(Top.n)
            ELSE IF Top.n = 16
            THEN exc' = InventoryMissing /\ UNCHANGED <<stack, wireVars, parked>>
            ELSE /\ exc' = NoExc
                 /\ stack'[Len(stack')].cmd = ItemDetailSnippet(Top.n + 1)]_vars
    /\ [][/\ At("_command", "recv")
          /\ Top.cmd[2] = "turtle.select("
          /\ lastFrame'.type = "response"
          /\ tick' # tick
          => \A at \in 1..Len(stack') : stack'[at].fn # "inventory_select"]_vars
    /\ [][exc' = InventoryMissing /\ exc = NoExc => At("inventory_select", "reply")]_vars

\* C16 happens: fifteen slots without a match, then select(16) answered.
C16_Witness ==
    /\ AtStrategy
    /\ latest_command = <<"return", "turtle.select(", "1", "6", ")", "(SUCCESS)">>

\* C17: refuel accepts every target with 0 < target < FUEL_LIMIT and goes on
\* to select fuel; a target outside that range is rejected with ValueError
\* before any command is sent.
C17_RefuelTargetValidation ==
    [][At("refuel", "entry") /\ (stack' # stack \/ exc' # exc)
         => IF 0 < Top.n /\ Top.n < 20000
            THEN /\ exc' = NoExc
                 /\ Len(stack') = Len(stack) + 1
                 /\ Top'.fn = "inventory_select"
                 /\ Top'.search = Coal
            ELSE /\ exc'.type = "ValueError"
                 /\ UNCHANGED wireVars]_vars

\* C18: home changes only when the stripmine strategy executes its snapshot
\* step; every move, turn, dig, inventory and planner operation leaves it
\* unchanged, so that while a branch is walked home is the trunk location of
\* the last snapshot and the guard measures the distance to it.
C18_HomeStable == [][home' # home => At("start", "snapshot")]_vars

\* start has returned without an exception.
StartReturned == stack # <<>> /\ Top.fn = "register" /\ Top.pc = "finally" /\ exc = NoExc

\* C19: when the stripmine strategy has finished all its branch pairs against
\* the stub agent with ample fuel, it runs the process-complete routine
\* before start returns: check_fuel is false and move_to_location(home) has
\* been invoked.
C19_StripCompletion ==
    /\ [](StartReturned => ~check_fuel)
    /\ [][At("start", "paired") /\ Top.i + 1 = branch_pair_count
            => /\ Len(stack') = Len(stack) + 1
               /\ Top'.fn = "_process_complete"]_vars

\* C20: against the stub agent with ample fuel the quarry strategy mines
\* exactly y_size + 1 layers, each ended by one dig_move(DOWN), then runs
\* process-complete; when start returns check_fuel is false, the location is
\* home = (0,0,0) and the bearing is NORTH.
C20_QuarryCompletion ==
    /\ [](StartReturned
            => ~check_fuel /\ loc = Origin /\ home = Origin /\ bearing = NORTH)
    /\ [][At("start", "down")
            => /\ Top' = DigMoveFrame(DOWN)
               /\ stack'[Len(stack)].i = Top.i + 1
               /\ loc.y = -Top.i]_vars
    /\ [][Running /\ Top.fn = "start" /\ Running' /\ Top'.fn = "_process_complete"
            => /\ Top.i = y_size + 1
               /\ loc.y = -(y_size + 1)
               /\ check_fuel]_vars
    /\ [][loc'.y < loc.y => Len(stack) > 3 /\ stack[3].pc \in {"row", "complete"}
                             /\ stack[3].i = -loc'.y]_vars

\* C20 happens: the quarry has been mined and start has returned at home.
C20_Witness ==
    /\ StartReturned
    /\ ~check_fuel
    /\ loc = Origin
    /\ bearing = NORTH
    /\ fuel < AmpleFuel - (y_size + 1) * xz_size * xz_size

\* C21: in move_to_location(T) without cost_calculation, an axis whose delta
\* between the location and T is zero gets no turn command and no dig or step
\* command; when T.x equals the current x the x leg sends no turnRight.
C21_ZeroDeltaSkip ==
    [][InPlanner /\ Len(stack') = Len(stack) + 1
         => LET f == stack'[Len(stack)]
            IN  /\ f.pc \in {"y", "xturn", "x", "zturn", "z", "nturn"}
                /\ f.pc = "y" => f.diff.y # 0
                /\ f.pc \in {"xturn", "x"} => f.diff.x # 0
                /\ f.pc \in {"zturn", "z"} => f.diff.z # 0]_vars

\* The snippets of dig, of move and of the two turns.
DigMoveTurnSnippets ==
    {DigSnippet(d) : d \in {FORWARD, DOWN, UP}} \cup MovementSnippets
        \cup {Snippet("turtle.turnLeft()"), Snippet("turtle.turnRight()")}

\* Some move_to_location is on the stack.
PlannerActive == \E at \in 1..Len(stack) : stack[at].fn = "move_to_location"

\* The place on the stack of the innermost move_to_location.
PlannerAt ==
    CHOOSE at \in 1..Len(stack) :
        /\ stack[at].fn = "move_to_location"
        /\ \A above \in (at + 1)..Len(stack) : stack[above].fn # "move_to_location"

\* The order of the planner's loops.
PlannerRank(pc) ==
    CASE pc = "entry" -> 0
      [] pc = "y" -> 1
      [] pc = "xturn" -> 2
      [] pc = "x" -> 3
      [] pc = "zturn" -> 4
      [] pc = "z" -> 5
      [] pc = "nturn" -> 6
      [] pc = "return" -> 7

\* The bearing a rotation loop of the planner stops at.
RotationGoal(f) ==
    CASE f.pc = "xturn" -> XBearing(f.diff.x)
      [] f.pc = "zturn" -> ZBearing(f.diff.z)
      [] f.pc = "nturn" -> NORTH

\* A command frame is sent in this step.
Sends == lastFrame'.type = "command" /\ tick' # tick

\* C22: the dig, move and turn commands of a move_to_location(T) come in the
\* order |dy| pairs of dig and step up or down, right turns (at most 3), |dx|
\* pairs of (dig, forward), right turns (at most 3), |dz| pairs of (dig,
\* forward), right turns (at most 3); never turnLeft or back; every step
\* follows the dig of its dig_move.
C22_PlannerOrder ==
    \* what is sent while the planner is at a loop belongs to that loop
    /\ [][Sends /\ PlannerActive /\ lastFrame'.body \in DigMoveTurnSnippets
            => LET f == stack[PlannerAt]
                   c == lastFrame'.body
                   vertical == IF f.diff.y > 0 THEN UP ELSE DOWN
               IN  /\ f.pc \in {"y", "xturn", "x", "zturn", "z", "nturn"}
                   /\ f.pc = "y" =>
                        /\ c \in {DigSnippet(vertical), MoveSnippet(vertical)}
                        /\ f.n \in 1..Abs(f.diff.y)
                   /\ f.pc = "x" =>
                        /\ c \in {DigSnippet(FORWARD), MoveSnippet(FORWARD)}
                        /\ f.n \in 1..Abs(f.diff.x)
                   /\ f.pc = "z" =>
                        /\ c \in {DigSnippet(FORWARD), MoveSnippet(FORWARD)}
                        /\ f.n \in 1..Abs(f.diff.z)
                   /\ f.pc \in {"xturn", "zturn", "nturn"} =>
                        c = Snippet("turtle.turnRight()")
                   /\ c \in MovementSnippets =>
                        /\ PlannerAt = Len(stack) - 3
                        /\ stack[Len(stack) - 1].fn = "move"
                        /\ stack[Len(stack) - 2].fn = "dig_move"
                        /\ stack[Len(stack) - 2].pc = "done"
                        /\ stack[Len(stack) - 2].arg = stack[Len(stack) - 1].arg
                        /\ latest_command' =
                             Append(MoveSnippet(stack[Len(stack) - 2].arg), "(PENDING)")
                   /\ c \in {DigSnippet(d) : d \in {FORWARD, DOWN, UP}} =>
                        /\ PlannerAt = Len(stack) - 3
                        /\ stack[Len(stack) - 2].fn = "dig_move"
                        /\ stack[Len(stack) - 2].pc = "move"]_vars
    \* the loops follow one another in the source's order, each leg complete
    /\ [][InPlanner /\ exc' = NoExc /\ stack' # stack
            => LET f == Top
                   to == IF Len(stack') < Len(stack) THEN "return"
                         ELSE stack'[Len(stack)].pc
               IN  /\ PlannerRank(to) >= PlannerRank(f.pc)
                   /\ PlannerRank(f.pc) < 1 /\ 1 < PlannerRank(to) => f.diff.y = 0
                   /\ PlannerRank(f.pc) < 3 /\ 3 < PlannerRank(to) => f.diff.x = 0
                   /\ PlannerRank(f.pc) < 5 /\ 5 < PlannerRank(to) => f.diff.z = 0
                   /\ f.pc = "y" /\ to # "y" => f.n = Abs(f.diff.y)
                   /\ f.pc = "x" /\ to # "x" => f.n = Abs(f.diff.x)
                   /\ f.pc = "z" /\ to # "z" => f.n = Abs(f.diff.z)
                   /\ f.pc \in {"xturn", "zturn", "nturn"} /\ to # f.pc =>
                        bearing = RotationGoal(f)
                   /\ to \in {"xturn", "zturn", "nturn"} =>
                        /\ Top' = TurnFrame("right")
                        /\ (RotationGoal(stack'[Len(stack)]) - bearing) % BearingCount
                             \in 1..3]_vars

\* C22 happens: from ((0,0,0), NORTH) to (1,1,-1) the planner has gone up,
\* turned to EAST, stepped, turned to NORTH and now sends the step of the z leg.
C22_Witness ==
    /\ Len(stack) = 7
    /\ stack[4].fn = "move_to_location"
    /\ stack[4].pc = "z"
    /\ stack[4].diff = Loc(1, 1, -1)
    /\ loc = Loc(1, 1, -1)
    /\ bearing = NORTH
    /\ outstanding = 1
    /\ lastFrame.body = MoveSnippet(FORWARD)

\* The top frame is a dig, place_block or drop_item that has not looked at
\* its direction yet (the dig of a dig_move included).
AtDirectionCheck ==
    /\ Running
    /\ \/ Top.fn \in {"dig", "place_block", "drop_item"} /\ Top.pc = "entry"
       \/ Top.fn = "dig_move" /\ Top.pc = "dig"

\* The reply to the command of a place_block or drop_item is being looked at.
AtStatusCheck ==
    /\ Running
    /\ Top.fn \in {"place_block", "drop_item"}
    /\ Top.pc = "check"

SelectSnippets == {SelectSnippet(slot) : slot \in SlotRange}

InPrerun ==
    /\ Len(stack) >= 3
    /\ stack[3].fn = "start"
    /\ stack[3].pc \in {"loop", "refuel", "prerun"}

\* C25: if the fuel level read after the refuel attempt is below
\* ((branch_spacing + 1) + (branch_length * 4 + 1)) * branch_pair_count, the
\* stripmine strategy raises HaltException before any dig, turn or movement
\* command has been sent, the pose still ((0,0,0), NORTH); if the reading is
\* at least that, mining starts.
C25_PrerunHalt ==
    /\ [](InPrerun
            => /\ loc = Origin
               /\ bearing = NORTH
               /\ latest_command \in
                    {<<>>, Append(GetFuelSnippet, "(PENDING)"),
                     Append(GetFuelSnippet, "(SUCCESS)")})
    /\ [][At("start", "prerun")
            => IF ret.data < ((branch_spacing + 1) + (branch_length * 4 + 1)) * branch_pair_count
               THEN /\ exc'.type = "HaltException"
                    /\ UNCHANGED <<stack, loc, bearing, wireVars, parked>>
               ELSE /\ exc' = NoExc
                    /\ Top'.fn = "start"
                    /\ Top'.pc = "trunk"]_vars
    /\ [][At("start", "trunk") /\ Top.i = 0 /\ Top.j = 0
            => Top' = DigMoveFrame(FORWARD)]_vars
    /\ [][exc'.type = "HaltException" /\ exc = NoExc /\ InPrerun => At("start", "prerun")]_vars

\* C25 happens: a reading one short of the requirement has halted the strategy.
C25_Witness ==
    /\ exc.type = "HaltException"
    /\ InPrerun
    /\ fuel = 1543
    /\ latest_command = Append(GetFuelSnippet, "(SUCCESS)")

\* C26: the refuel(required_fuel) call of the stripmine pre-run check, made
\* with the tank below required_fuel, goes on to search the inventory for coal
\* (the step without which turtle.refuel() cannot be issued before the
\* sufficiency decision) instead of raising.
C26_PrerunRefuels ==
    [][(/\ At("refuel", "entry")
        /\ InPrerun
        /\ fuel < ((branch_spacing + 1) + (branch_length * 4 + 1)) * branch_pair_count)
          => /\ exc' = NoExc
             /\ Top' = InventoryFrame(Coal)]_vars

\* A torch is being searched for or placed.
TorchBusy ==
    \E n \in 1..Len(stack) :
        \/ stack[n].fn = "place_torch"
        \/ stack[n].fn = "inventory_select" /\ stack[n].search = Torch
        \/ stack[n].fn = "place_block"

\* C27: a torch placement of the lit return that fails with the
\* InventoryException of a missing item sets do_place_torches to false and the
\* strategy goes on; do_place_torches then stays false, no torch is searched
\* for and no placeUp is sent any more; a successful placement sets
\* current_light_level to torch_light, and each move(FORWARD) of the lit return
\* lowers it by exactly 1.
C27_TorchExhaustion ==
    /\ [][(/\ stack # <<>>
           /\ Top.fn = "start"
           /\ Top.pc \in {"torch", "end_torch"}
           /\ exc.type = "InventoryException")
            => /\ ~do_place_torches'
               /\ exc' = NoExc
               /\ current_light_level' = current_light_level
               /\ Top'.fn = "start"
               /\ Top'.pc \in {"step", "light", "out", "face"}]_vars
    /\ [][~do_place_torches => ~do_place_torches']_vars
    /\ [](~do_place_torches /\ exc = NoExc => ~TorchBusy)
    /\ [][~do_place_torches /\ Sends => lastFrame'.body # PlaceSnippet(UP)]_vars
    /\ [][(/\ stack # <<>>
           /\ Top.fn = "start"
           /\ Top.pc \in {"torch", "end_torch"}
           /\ exc = NoExc)
            => current_light_level' = torch_light /\ do_place_torches']_vars
    /\ [][At("start", "moved") => current_light_level' = current_light_level - 1]_vars
    /\ [][current_light_level' # current_light_level
            => \/ current_light_level' = torch_light
               \/ At("start", "moved")]_vars

\* C27 happens: the torches ran out on the way and the strategy has mined all
\* its branch pairs all the same.
C27_Witness ==
    /\ ~do_place_torches
    /\ At("start", "paired")
    /\ Top.i = branch_pair_count - 1
    /\ current_light_level < 0

\* C28: when the inspect of falling_block_check has returned a block whose
\* name contains "gravel" or "sand", dig(FORWARD) is issued and the check goes
\* on to inspect again; it returns only after an inspect that reported no
\* block or a block with neither in its name.
C28_FallingBlockCheck ==
    [][At("falling_block_check", "inspected")
         => IF /\ "name" \in DOMAIN ret.data
               /\ \/ Contains(Gravel, ret.data["name"])
                  \/ Contains(Sand, ret.data["name"])
            THEN /\ Top' = DigFrame(FORWARD)
                 /\ stack'[Len(stack)].fn = "falling_block_check"
                 /\ stack'[Len(stack)].pc = "entry"
            ELSE Len(stack') < Len(stack)]_vars

\* refuel has been called and is not over yet.
RefuelRunning == \E n \in 1..Len(stack) : stack[n].fn = "refuel"

\* C29: against an agent that keeps a finite inventory of 16 slots and
\* answers every command, every call of refuel eventually returns or raises,
\* whatever the agent answers to turtle.refuel().
C29_RefuelTerminates == RefuelRunning ~> ~RefuelRunning

\* The side of the trunk a pass of a branch pair mines: west first, then east.
PassSide(pass) == IF pass = 0 THEN -1 ELSE 1

\* C30: against the always-success agent with ample fuel, from ((0,0,0),
\* NORTH), the pose after the k-th branch pair is ((0, 0, -k*(branch_spacing
\* + 1)), NORTH); y stays 0 and |x| never exceeds branch_length; each of the
\* two passes of a pair walks branch_length steps out and branch_length steps
\* back to x = 0.
C30_StripGeometry ==
    /\ [](At("start", "paired")
            => /\ loc = Loc(0, 0, -((Top.i + 1) * (branch_spacing + 1)))
               /\ bearing = NORTH)
    /\ [](loc.y = 0 /\ Abs(loc.x) <= branch_length)
    /\ [](At("start", "out")
            => /\ loc.x = PassSide(Top.k) * Top.j
               /\ loc.z = -((Top.i + 1) * (branch_spacing + 1)))
    /\ [](At("start", "about")
            => loc = Loc(PassSide(Top.k) * branch_length, 0,
                         -((Top.i + 1) * (branch_spacing + 1))))
    /\ [](At("start", "light")
            => /\ loc.x = PassSide(Top.k) * (branch_length - Top.j)
               /\ loc.z = -((Top.i + 1) * (branch_spacing + 1)))
    /\ [](At("start", "face") => loc.x = 0)

\* C30 happens: the last branch pair is completed.
C30_Witness ==
    /\ At("start", "paired")
    /\ Top.i = branch_pair_count - 1
    /\ fuel = AmpleFuel - ((branch_spacing + 1) + branch_length * 4) * branch_pair_count
    /\ loc = Loc(0, 0, -(branch_pair_count * (branch_spacing + 1)))
    /\ bearing = NORTH

\* C31: against the always-success agent with ample fuel, from ((0,0,0),
\* NORTH), every state of the quarry strategy has 0 <= x <= xz_size - 1,
\* -(xz_size - 1) <= z <= 0 and -(y_size + 1) <= y <= 0, and each layer starts
\* in a corner of that square, one block below the layer before.
C31_QuarryFootprint ==
    /\ [](/\ loc.x \in 0..(xz_size - 1)
          /\ loc.z \in -(xz_size - 1)..0
          /\ loc.y \in -(y_size + 1)..0)
    /\ [](At("start", "row") /\ Top.j = 0 /\ Top.k = 0
            => /\ loc.x \in {0, xz_size - 1}
               /\ loc.z \in {0, -(xz_size - 1)}
               /\ loc.y = -Top.i)

\* C31 happens: the last layer starts in the far corner of the square.
C31_Witness ==
    /\ At("start", "row")
    /\ Top.i = y_size
    /\ Top.j = 0
    /\ Top.k = 0
    /\ loc = Loc(xz_size - 1, -y_size, -(xz_size - 1))
    /\ bearing = SOUTH

\* The connections of the two-connection specification.
Conns == {1, 2}

\* The call stack of the task of connection c.
StackOf(c) == IF parked # <<>> /\ parked[1].conn = c THEN parked[1].stack ELSE stack

\* The pose, home, check_fuel, latest_fuel, latest_command, steps_from_home
\* and do_place_torches of the turtle of connection c.
AttrsOf(c) ==
    IF parked # <<>> /\ parked[1].conn = c
    THEN <<parked[1].loc, parked[1].bearing, parked[1].home, parked[1].check_fuel,
           parked[1].latest_fuel, parked[1].latest_command,
           parked[1].steps_from_home, parked[1].do_place_torches>>
    ELSE <<loc, bearing, home, check_fuel, latest_fuel, latest_command,
           steps_from_home, do_place_torches>>

\* The task of connection c is between the add and the remove of register.
InActiveSet(c) ==
    \E i \in 1..Len(StackOf(c)) :
        StackOf(c)[i].fn = "register" /\ StackOf(c)[i].pc \in {"start", "finally"}

====
